---- MODULE Spec2Model ----
(***************************************************************************)
(* Verification model of the strong-events dispatcher: BaseEvent (event    *)
(* identity), EmitInfo (emission context) and EventEmitter (registry,     *)
(* hierarchy traversal, synchronous and asynchronous emission).           *)
(*                                                                         *)
(* Strings are sequences of character codes, so that eventName is the      *)
(* concatenation the code builds and the registry is keyed by it.          *)
(***************************************************************************)
EXTENDS Integers, Sequences, FiniteSets, TLC

\* ------------------------------------------------------------------ bounds
\* Number of calls of the emitter's methods user code makes in one run.  Runs
\* that use no emitAsync (SpecSync) get one call more.
MaxOps == 3

\* longest generated class name
MaxLen == 2

\* reads of one class's eventName
MaxReads == 2

\* once() wrappers and emitAsync calls are numbered; a run has at most as
\* many of either as it has calls
Ids == 1..(MaxOps + 1)

\* ------------------------------------------------- the declared event classes
\* class BaseOrderEvent extends BaseEvent; class OrderCreatedEvent extends
\* BaseOrderEvent; class OrderCancelledEvent extends BaseOrderEvent.
\* "Object" is the constructor found above BaseEvent.prototype; it has no
\* eventName.
Classes == {"BaseEvent", "BaseOrderEvent", "OrderCreatedEvent", "OrderCancelledEvent"}

NoClass == "Object"

ParentClass ==
  [c \in Classes |->
     CASE c = "OrderCreatedEvent" -> "BaseOrderEvent"
       [] c = "OrderCancelledEvent" -> "BaseOrderEvent"
       [] c = "BaseOrderEvent" -> "BaseEvent"
       [] OTHER -> NoClass]

\* Function.name of each class, as character codes
ClassName ==
  [c \in Classes |->
     CASE c = "BaseEvent" -> <<66, 97, 115, 101, 69, 118, 101, 110, 116>>
       [] c = "BaseOrderEvent" ->
            <<66, 97, 115, 101, 79, 114, 100, 101, 114, 69, 118, 101, 110, 116>>
       [] c = "OrderCreatedEvent" ->
            <<79, 114, 100, 101, 114, 67, 114, 101, 97, 116, 101, 100, 69, 118, 101, 110, 116>>
       [] OTHER ->
            <<79, 114, 100, 101, 114, 67, 97, 110, 99, 101, 108, 108, 101, 100, 69, 118, 101, 110, 116>>]

\* the listener functions user code holds references to
Fns == {"f1", "f2"}

\* ------------------------------------------------------- BaseEvent.eventName
\* 32-bit integers are pairs <<hi, lo>> of 16-bit halves (two's complement).
W16 == 65536

\* hash << 5
Shl5(x) == <<(x[1] * 32 + (x[2] \div 2048)) % W16, (x[2] * 32) % W16>>

\* (a - b) wrapped to 32 bits
Sub32(a, b) ==
  LET borrow == IF a[2] < b[2] THEN 1 ELSE 0
  IN  <<(a[1] - b[1] - borrow + 2 * W16) % W16, (a[2] - b[2] + W16) % W16>>

\* (a + n) wrapped to 32 bits, for a character code n
Add32(a, n) ==
  LET t == a[2] + n
  IN  <<(a[1] + (t \div W16)) % W16, t % W16>>

\* Math.abs of the signed value (2^31 for the most negative value)
Abs32(x) ==
  IF x[1] < 32768 THEN x
  ELSE <<(W16 - 1 - x[1] + (IF x[2] = 0 THEN 1 ELSE 0)) % W16, (W16 - x[2]) % W16>>

HexChar(d) == IF d < 10 THEN 48 + d ELSE 87 + d

RECURSIVE HexDigits(_)
\* Number.toString(16) of n >= 0: no leading zeros, "0" for zero
HexDigits(n) ==
  IF n < 16 THEN <<HexChar(n)>>
  ELSE Append(HexDigits(n \div 16), HexChar(n % 16))

\* four hexadecimal digits of a 16-bit half, leading zeros kept
Hex4(n) ==
  <<HexChar(n \div 4096), HexChar((n \div 256) % 16),
    HexChar((n \div 16) % 16), HexChar(n % 16)>>

ToString16(x) ==
  IF x[1] = 0 THEN HexDigits(x[2]) ELSE HexDigits(x[1]) \o Hex4(x[2])

Substring04(s) == SubSeq(s, 1, IF Len(s) < 4 THEN Len(s) ELSE 4)

RECURSIVE HashLoop(_, _, _)
\* the for loop of generateHash from index i on. TLC evaluates an operator's
\* argument when it is first used; the test on next has each step's value
\* computed in that step.
HashLoop(name, i, hash) ==
  IF i > Len(name) THEN hash
  ELSE LET next == Add32(Sub32(Shl5(hash), hash), name[i])
       IN  IF Len(next) = 2 THEN HashLoop(name, i + 1, next) ELSE hash

generateHash(name) == Substring04(ToString16(Abs32(HashLoop(name, 1, <<0, 0>>))))

\* `${this.name}(${hash})`; evaluated once per class, as the cache does
eventName ==
  [c \in Classes |-> ClassName[c] \o <<40>> \o generateHash(ClassName[c]) \o <<41>>]

\* mutant: the walk ends at the class below the root
HasEventNameBelowRoot(c) == c \in Classes \ {"BaseEvent"}

\* parentClass && parentClass.eventName
HasEventName(c) == c \in Classes

\* ------------------------------------------------ the eventName getter
\* classes whose eventName is read, and the names they may be declared with:
\* every string of 1..MaxLen characters of NameChars ("A", "B", "a"), and
\* the names of the test classes
NameClasses == {"class1", "class2"}

NameChars == {65, 66, 97}

RECURSIVE StringsOf(_)
StringsOf(n) ==
  IF n = 0 THEN {<<>>}
  ELSE {Append(s, ch) : s \in StringsOf(n - 1), ch \in NameChars}

Names ==
  UNION {StringsOf(n) : n \in 1..MaxLen} \cup {ClassName[c] : c \in Classes}

\* class TestEvent, class ComplexEvent
TestNames ==
  [c \in NameClasses |->
     IF c = "class1" THEN <<84, 101, 115, 116, 69, 118, 101, 110, 116>>
     ELSE <<67, 111, 109, 112, 108, 101, 120, 69, 118, 101, 110, 116>>]

\* mutant: the cache has one entry for all classes
CacheKeyShared(c) == "class1"

\* the key of class c in _eventNameCache: the class itself (this)
CacheKey(c) == c

\* `${this.name}(${hash})`
TemplateString(name) == name \o <<40>> \o generateHash(name) \o <<41>>

RECURSIVE Chain(_)
\* the class and its superclasses, as the class declarations give them
Chain(c) == IF c \notin Classes THEN <<>> ELSE <<c>> \o Chain(ParentClass[c])

ChainSet(c) == {Chain(c)[i] : i \in 1..Len(Chain(c))}

\* the strict ancestors of a class
Ancestors(c) == ChainSet(c) \ {c}

\* ------------------------------------------------------------------- state
VARIABLES
  listeners,    \* Map<string, Function[]>: eventName -> sequence of listeners
  wrappers,     \* number of once() wrappers created so far
  pc,           \* "idle", "emit" (inside emit's for loop), "emitDone",
                \* "emitThrew" (an exception left emit),
                \* "micro" (the microtask queue is being drained)
  event,        \* the event parameter of the running emit
  emitInfo,     \* the EmitInfo of the running emit
  gen,          \* the suspended gatherInheritanceListeners generator of emit
  hasError,     \* emit's local hasError
  result,       \* the value emit returns
  log,          \* listener invocations of the running emit, in order
  reg0,         \* the registry as it was when the running emit was called
  onceCalls,    \* per wrapper: invocations by emit so far (capped at 2), those
                \* by an emit that a listener called included
  calls,        \* emitAsync calls in flight (chain0: the registrations of the
                \* chain when the call was made)
  micro,        \* the microtask queue: <<call, task>> pairs, in order
  lastOp,       \* the last registry method user code called, the registry
                \* before it and before the call preceding it (kept only
                \* in runs that start from InitReg)
  pastStop,     \* whether a listener stopped the propagation of an emit that
                \* has returned: "no", "yes" (kept only in runs that start
                \* from InitPast, "untracked" otherwise)
  declared,     \* the declared name (this.name) of each class of NameClasses
  cache,        \* BaseEvent._eventNameCache: class -> eventName
  returned,     \* per class: the strings its eventName getter has returned,
                \* in order
  declaredParent, \* the superclass each class of WalkClasses is declared with
  ownName,      \* the classes of WalkClasses that declare a static eventName
  walk,         \* a run of the do-while loop of gatherInheritanceListeners:
                \* start, cur (currentClass), visited, done
  past,         \* the emit that returned last: the value it returned and its
                \* listener invocations (kept only in runs that start from
                \* InitLate)
  ops           \* number of method calls user code may still make

nameVars == <<declared, cache, returned>>

walkVars == <<declaredParent, ownName, walk>>

vars == <<listeners, wrappers, pc, event, emitInfo, gen, hasError, result, log,
          reg0, onceCalls, calls, micro, lastOp, pastStop, nameVars, walkVars, past, ops>>

\* a listener reference: a user function, or the wrapper number w created by
\* once(ev, fn)
PlainRef(f) == [fn |-> f, w |-> 0, ev |-> NoClass]

WrapperRef(f, n, c) == [fn |-> f, w |-> n, ev |-> c]

NullInfo == [event |-> NoClass, cont |-> TRUE, null |-> TRUE]

\* mutant: one EmitInfo serves every emit, and its flag stays false once a
\* listener has stopped the propagation
NewEmitInfoShared(c) == [event |-> c, cont |-> pastStop # "yes", null |-> FALSE]

\* new EmitInfo(event): _continuePropagation = true
NewEmitInfo(c) == [event |-> c, cont |-> TRUE, null |-> FALSE]

\* mutant: stopEventPropagation flips the flag
StopEventPropagationToggle(info, stop) ==
  IF stop THEN [info EXCEPT !.cont = ~info.cont] ELSE info

\* EmitInfo.stopEventPropagation, called or not by the listener
StopEventPropagation(info, stop) ==
  IF stop THEN [info EXCEPT !.cont = FALSE] ELSE info

NoGen == [cls |-> NoClass, phase |-> "done", idx |-> 0, live |-> FALSE, arr |-> <<>>]

\* ---------------------------------------------------------------- registry
Has(reg, key) == key \in DOMAIN reg

MapSet(reg, key, val) ==
  [k \in DOMAIN reg \cup {key} |-> IF k = key THEN val ELSE reg[k]]

MapDelete(reg, key) == [k \in DOMAIN reg \ {key} |-> reg[k]]

\* on(event, listener)
OnReg(reg, c, l) ==
  LET key == eventName[c]
      created == IF ~Has(reg, key) THEN MapSet(reg, key, <<>>) ELSE reg
  IN  MapSet(created, key, Append(created[key], l))

\* mutant: off(K, h) also takes out the once wrappers of h
OffRegUnwrap(reg, c, l) ==
  LET key == eventName[c]
  IN  IF Has(reg, key)
      THEN LET filtered ==
                 SelectSeq(reg[key],
                           LAMBDA x : x # l /\ ~(l.w = 0 /\ x.w # 0 /\ x.fn = l.fn))
           IN  IF Len(filtered) = 0 THEN MapDelete(reg, key)
               ELSE MapSet(reg, key, filtered)
      ELSE reg

\* mutant: off takes out the first registration of the listener only
OffRegFirstOnly(reg, c, l) ==
  LET key == eventName[c]
  IN  IF Has(reg, key) /\ \E i \in 1..Len(reg[key]) : reg[key][i] = l
      THEN LET p == CHOOSE i \in 1..Len(reg[key]) :
                      reg[key][i] = l /\ \A j \in 1..(i - 1) : reg[key][j] # l
               filtered == SubSeq(reg[key], 1, p - 1)
                             \o SubSeq(reg[key], p + 1, Len(reg[key]))
           IN  IF Len(filtered) = 0 THEN MapDelete(reg, key)
               ELSE MapSet(reg, key, filtered)
      ELSE reg

\* mutant: off deletes the whole entry of the class
OffRegDropKey(reg, c, l) == MapDelete(reg, eventName[c])

\* mutant: an entry that off has emptied stays in the map
OffRegKeepEmpty(reg, c, l) ==
  LET key == eventName[c]
  IN  IF Has(reg, key)
      THEN MapSet(reg, key, SelectSeq(reg[key], LAMBDA x : x # l))
      ELSE reg

\* mutant: off leaves the registry alone
OffRegNothing(reg, c, l) == reg

\* mutant: the listener is removed by position, and a listener that is not
\* found takes the last one out
OffRegPopLast(reg, c, l) ==
  LET key == eventName[c]
  IN  IF Has(reg, key)
      THEN LET filtered == IF \E i \in 1..Len(reg[key]) : reg[key][i] = l
                           THEN SelectSeq(reg[key], LAMBDA x : x # l)
                           ELSE SubSeq(reg[key], 1, Len(reg[key]) - 1)
           IN  IF Len(filtered) = 0 THEN MapDelete(reg, key)
               ELSE MapSet(reg, key, filtered)
      ELSE reg

\* off(event, listener)
OffReg(reg, c, l) ==
  LET key == eventName[c]
  IN  IF Has(reg, key)
      THEN LET filtered == SelectSeq(reg[key], LAMBDA x : x # l)
           IN  IF Len(filtered) = 0 THEN MapDelete(reg, key)
               ELSE MapSet(reg, key, filtered)
      ELSE reg

\* mutant: the entries of the class and of its ancestors are deleted
RemoveForRegChain(reg, c) ==
  [k \in DOMAIN reg \ {eventName[a] : a \in ChainSet(c)} |-> reg[k]]

\* removeAllListenersFor(event): this.listeners.delete(eventName)
RemoveForReg(reg, c) == MapDelete(reg, eventName[c])

\* mutant: the listeners of the root survive
ClearRegKeepRoot(reg) ==
  [k \in DOMAIN reg \cap {eventName["BaseEvent"]} |-> reg[k]]

\* removeAllListeners(): this.listeners.clear()
ClearReg(reg) == <<>>

\* the listeners stored for a class, none when the map has no entry
LevelRegs(reg, c) == IF Has(reg, eventName[c]) THEN reg[eventName[c]] ELSE <<>>

\* listeners paired with the class they are registered on
Tag(ls, c) == [i \in 1..Len(ls) |-> [h |-> ls[i], lvl |-> c]]

RECURSIVE ExpectedFrom(_, _)
ExpectedFrom(reg, chain) ==
  IF chain = <<>> THEN <<>>
  ELSE Tag(LevelRegs(reg, Head(chain)), Head(chain)) \o ExpectedFrom(reg, Tail(chain))

\* every registration on c and on its ancestors: leaf first, root last,
\* registration order within a class
Expected(reg, c) == ExpectedFrom(reg, Chain(c))

\* ------------------------------------------ gatherInheritanceListeners
\* mutant: off removes the listener from the array in place, so the loop
\* always walks the array that is stored in the map
CurArrStored(reg, g) == LevelRegs(reg, g.cls)

\* The array the generator's for-of loop is iterating: the array stored in
\* the map (live: push is seen), or the array that was stored there before
\* off/delete/clear replaced it.
CurArr(reg, g) == IF g.live THEN reg[eventName[g.cls]] ELSE g.arr

\* The generator's array stops being the stored one when the entry of key is
\* replaced or deleted.
Detach(reg, g, keys) ==
  IF g.phase = "iter" /\ g.live /\ eventName[g.cls] \in keys
  THEN [g EXCEPT !.live = FALSE, !.arr = reg[eventName[g.cls]]]
  ELSE g

\* mutant: the traversal never leaves the emitted class
PrototypeParentNone(c) == NoClass

\* Object.getPrototypeOf(currentClass.prototype)?.constructor
PrototypeParent(c) == ParentClass[c]

\* mutant: the propagation flag is never looked at
PropagationStoppedNever(info) == FALSE

\* emitInfo !== null && !emitInfo.shouldContinuePropagation
PropagationStopped(info) == ~info.null /\ ~info.cont

\* mutant: the array is walked from its end
IterValueReversed(arr, idx) == arr[Len(arr) - idx]

\* the element the array iterator of the for-of loop returns at position idx
IterValue(arr, idx) == arr[idx + 1]

\* mutant: the arrays of the whole chain are read when emit is called
EnterLevelAtCall(reg, g) ==
  [g EXCEPT !.phase = "iter", !.idx = 0, !.live = FALSE, !.arr = LevelRegs(reg0, g.cls)]

\* const listeners = this.listeners.get(currentEventName)!, read as the
\* traversal reaches the class: the for-of loop starts on the stored array
EnterLevel(reg, g) == [g EXCEPT !.phase = "iter", !.idx = 0, !.live = TRUE]

RECURSIVE GenNext(_, _, _)
\* Runs the generator from its suspension point to the next yield or to its
\* end: [done, h (the listener yielded), lvl (its class), g (the new frame)].
GenNext(reg, info, g) ==
  LET finished == [done |-> TRUE, h |-> PlainRef("f1"), lvl |-> NoClass, g |-> NoGen]
      afterLevel ==
        IF eventName[g.cls] = eventName["BaseEvent"] THEN finished
        ELSE LET parentClass == PrototypeParent(g.cls)
             IN  IF parentClass # NoClass /\ HasEventName(parentClass)
                 THEN GenNext(reg, info,
                        [cls |-> parentClass, phase |-> "enter", idx |-> 0,
                         live |-> FALSE, arr |-> <<>>])
                 ELSE finished
  IN  CASE g.phase = "done" -> finished
        [] g.phase = "enter" ->
             IF Has(reg, eventName[g.cls])
             THEN GenNext(reg, info, EnterLevel(reg, g))
             ELSE afterLevel
        [] OTHER ->
             IF g.idx < Len(CurArr(reg, g))
             THEN [done |-> FALSE, h |-> IterValue(CurArr(reg, g), g.idx), lvl |-> g.cls,
                   g |-> [g EXCEPT !.idx = g.idx + 1]]
             ELSE IF PropagationStopped(info) THEN finished
             ELSE afterLevel

\* the promise emitAsync builds for listener h of class lvl: the listener has
\* not been called yet.  seen: the event field of the EmitInfo it is given;
\* flag: the shouldContinuePropagation it reads as it is called;
\* live: whether it was still registered when it was called; errs: the
\* console.error calls of its catch handler; inner: the promise the function
\* wrapped by once returned, which the wrapper drops.
NewTask(h, lvl) ==
  [h |-> h, lvl |-> lvl, hst |-> "queued", stop |-> FALSE, seen |-> NoClass,
   flag |-> TRUE, live |-> TRUE, errs |-> 0, inner |-> "none"]

StartGen(c) == [cls |-> c, phase |-> "enter", idx |-> 0, live |-> FALSE, arr |-> <<>>]

\* mutant: only the listeners of the emitted class are collected
CollectAllOwnClass(reg, g) ==
  LET ls == IF Has(reg, eventName[g.cls]) THEN reg[eventName[g.cls]] ELSE <<>>
  IN  [i \in 1..Len(ls) |-> NewTask(ls[i], g.cls)]

RECURSIVE CollectAll(_, _)
\* emitAsync's for loop over gatherInheritanceListeners(event): the generator
\* is run to its end without an EmitInfo, nothing else runs in between
CollectAll(reg, g) ==
  LET n == GenNext(reg, NullInfo, g)
  IN  IF n.done THEN <<>>
      ELSE <<NewTask(n.h, n.lvl)>> \o CollectAll(reg, n.g)

\* ------------------------------------------------------ calling a listener
\* listener l is in the array stored for class c
IsRegistered(reg, c, l) == \E i \in 1..Len(LevelRegs(reg, c)) : LevelRegs(reg, c)[i] = l

\* mutant: the listener is given a context naming the class being visited
PassedInfoVisited(info, lvl) == [info EXCEPT !.event = lvl]

\* the second argument of listener(args, emitInfo), for a listener of class lvl
PassedInfo(info, lvl) == info

\* mutant: the error is reported in the catch block and once more
ConsoleErrorTwice(caught) == IF caught THEN 2 ELSE 0

\* The console.error calls made for one listener call: one in the catch
\* block (emit) or the catch handler (emitAsync), which runs only when the
\* call threw or the promise it returned was rejected.
ConsoleError(caught) == IF caught THEN 1 ELSE 0

\* mutant: the listener is called outside try/catch
TryCatchNone(out) == IF out = "throw" THEN "uncaught" ELSE "completed"

\* try { listener(args, emitInfo) } catch (error) { ... } in emit
TryCatch(out) == IF out = "throw" THEN "caught" ELSE "completed"

\* a call of a method of the emitter that a listener makes
NoCall == [op |-> "none", cls |-> NoClass, fn |-> "f1"]

ListenerCalls ==
  {NoCall}
    \cup {[op |-> o, cls |-> c, fn |-> f] :
            o \in {"on", "off", "once"}, c \in Classes, f \in Fns}
    \cup {[op |-> "removeAllListenersFor", cls |-> c, fn |-> "f1"] : c \in Classes}
    \cup {[op |-> "removeAllListeners", cls |-> NoClass, fn |-> "f1"]}

\* The registry after the call listener(args, emitInfo).  A user function
\* leaves it alone; the wrapper made by once calls the wrapped function and
\* then this.off(event, wrappedListener), which a throw skips.
CallListener(reg, h, out) ==
  IF h.w # 0 /\ out # "throw" THEN OffReg(reg, h.ev, h) ELSE reg

\* the map entries that call replaced by a new array or deleted
ReplacedKeys(reg, h, out) ==
  IF h.w # 0 /\ out # "throw" /\ Has(reg, eventName[h.ev])
  THEN {eventName[h.ev]} ELSE {}

Bump(n) == IF n < 2 THEN n + 1 ELSE 2

\* emit(cls, args) called by a listener while an emit is running
EmitCalls == {[op |-> "emit", cls |-> c, fn |-> "f1"] : c \in Classes}

\* emit(cls, args) called by a listener while an emit is running, where the
\* listeners that are function fn call stopEventPropagation on the context
\* that emit passes them
EmitCallsStopping ==
  {[op |-> "emitStop", cls |-> c, fn |-> f] : c \in Classes, f \in Fns}

RECURSIVE RunEmit(_, _, _, _)
\* An emit that a listener calls runs to its return before the listener goes
\* on; the listeners it invokes return without calling the emitter, and those
\* whose function is in stops call stopEventPropagation.  reg: the registry
\* afterwards (once wrappers have removed themselves), invoked: the listeners
\* called, in order, replaced: the map entries replaced or deleted on the
\* way, info: the context of that emit when it returns.
RunEmit(reg, info, g, stops) ==
  LET n == GenNext(reg, info, g)
  IN  IF n.done THEN [reg |-> reg, invoked |-> <<>>, replaced |-> {}, info |-> info]
      ELSE LET keys == ReplacedKeys(reg, n.h, "return")
               rest == RunEmit(CallListener(reg, n.h, "return"),
                               StopEventPropagation(info, n.h.fn \in stops),
                               Detach(reg, n.g, keys), stops)
           IN  [reg |-> rest.reg,
                invoked |-> <<[h |-> n.h, lvl |-> n.lvl]>> \o rest.invoked,
                replaced |-> keys \cup rest.replaced,
                info |-> rest.info]

\* the emit a listener's call starts, if it is an emit call
Nested(reg, call) ==
  IF call.op \in {"emit", "emitStop"}
  THEN RunEmit(reg, NewEmitInfo(call.cls), StartGen(call.cls),
               IF call.op = "emitStop" THEN {call.fn} ELSE {})
  ELSE [reg |-> reg, invoked |-> <<>>, replaced |-> {}, info |-> NullInfo]

RECURSIVE CountCalls(_, _)
\* the calls of once wrappers in invoked added to the counts
CountCalls(counts, invoked) ==
  IF invoked = <<>> THEN counts
  ELSE CountCalls(IF Head(invoked).h.w # 0
                  THEN [counts EXCEPT ![Head(invoked).h.w] = Bump(@)]
                  ELSE counts,
                  Tail(invoked))

\* mutant: the emitter keeps one context for all the emits that are running
OwnInfoShared(outer, inner) ==
  IF inner.null THEN outer ELSE [outer EXCEPT !.cont = outer.cont /\ inner.cont]

\* The emitInfo of the running emit after a listener that called emit has
\* returned: emitInfo is a constant local to each call of emit, so the emit
\* the listener called, whose context ended as inner, never had this object.
OwnInfo(outer, inner) == outer

\* the registry after the call; n numbers the wrapper a once call creates
ApplyCall(reg, call, n) ==
  CASE call.op = "on" -> OnReg(reg, call.cls, PlainRef(call.fn))
    [] call.op = "once" -> OnReg(reg, call.cls, WrapperRef(call.fn, n, call.cls))
    [] call.op = "off" -> OffReg(reg, call.cls, PlainRef(call.fn))
    [] call.op = "removeAllListenersFor" -> RemoveForReg(reg, call.cls)
    [] call.op = "removeAllListeners" -> ClearReg(reg)
    [] call.op \in {"emit", "emitStop"} -> Nested(reg, call).reg
    [] OTHER -> reg

\* the map entries whose array the call replaced by another or removed
CallReplaced(reg, call) ==
  CASE call.op \in {"off", "removeAllListenersFor"} ->
         {eventName[call.cls]} \cap DOMAIN reg
    [] call.op = "removeAllListeners" -> DOMAIN reg
    [] call.op \in {"emit", "emitStop"} -> Nested(reg, call).replaced
    [] OTHER -> {}

\* What a listener does when called: whether it calls stopEventPropagation,
\* and whether it returns, throws, or returns a promise that is still pending.
SyncOutcomes == {"return", "throw"}

AsyncOutcomes == {"return", "throw", "promise"}

\* How the call ended, as emitAsync's "await listener(...)" sees it: the
\* wrapper of once returns undefined whatever the wrapped function returned.
ListenerState(h, out) ==
  CASE out = "throw" -> "threw"
    [] out = "promise" /\ h.w = 0 -> "pending"
    [] OTHER -> "returned"

\* the promise returned by the listener that a once wrapper calls: the
\* wrapper does not return it, so emitAsync never sees it
WrappedPromise(h, out) == IF h.w # 0 /\ out = "promise" THEN "pending" ELSE "none"

\* mutant: without the catch handler the promise built for a listener that
\* threw is never settled as a result
TaskResultThrowHangs(hst) ==
  CASE hst \in {"returned", "fulfilled"} -> "true"
    [] hst = "rejected" -> "false"
    [] OTHER -> "wait"

\* mutant: the catch handler returns nothing and every listener counts as a success
TaskResultNoFalse(hst) ==
  IF hst \in {"queued", "pending"} THEN "wait" ELSE "true"

\* mutant: the listener's result is not awaited
TaskResultNoAwait(hst) ==
  CASE hst \in {"returned", "fulfilled", "pending"} -> "true"
    [] hst \in {"threw", "rejected"} -> "false"
    [] OTHER -> "wait"

\* the promise built for one listener: true, false, or not settled yet
TaskResult(hst) ==
  CASE hst \in {"returned", "fulfilled"} -> "true"
    [] hst \in {"threw", "rejected"} -> "false"
    [] OTHER -> "wait"

\* mutant: hasError is assigned by every call, so the last listener decides
RecordErrorLast(err, threw) == threw

\* hasError = true in the catch block
RecordError(err, threw) == err \/ threw

\* mutant: the negation is missing
EmitResultRaw(err) == err

\* return !hasError
EmitResult(err) == ~err

\* no registry call is recorded / none has been made yet
Untracked == [op |-> "untracked", cls |-> NoClass, fn |-> "f1", before |-> <<>>,
              prev |-> <<>>, before2 |-> <<>>, age |-> 0]

NoOp == [Untracked EXCEPT !.op = "none"]

\* the record of the call op(cls, fn) made on registry reg after call last
Record(last, op, c, f, reg) ==
  IF last.op = "untracked" THEN last
  ELSE [op |-> op, cls |-> c, fn |-> f, before |-> reg,
        prev |-> IF last.age = 0 THEN <<last.op, last.cls, last.fn>> ELSE <<>>,
        before2 |-> IF last.age = 0 THEN last.before ELSE <<>>,
        age |-> 0]

\* one more emit call was made since (age: 0, 1, 2 for two or more)
Aged(last) ==
  IF last.op \in {"untracked", "none"} THEN last ELSE [last EXCEPT !.age = Bump(@)]

FreeCall == [active |-> FALSE, ev |-> NoClass, info |-> NullInfo, tasks |-> <<>>,
             resolved |-> "none", chain0 |-> <<>>]

\* ------------------------------------- the walk up the class hierarchy
\* classes that may be declared in any hierarchy: BaseEvent, which extends
\* nothing, and three classes that extend any class or none
WalkClasses == {"BaseEvent", "A", "B", "C"}

RECURSIVE ReachesTop(_, _, _)
\* following the extends clauses p from c ends at Object within n steps
ReachesTop(p, c, n) ==
  IF c = NoClass THEN TRUE
  ELSE IF n = 0 THEN FALSE
  ELSE ReachesTop(p, p[c], n - 1)

\* the class declarations a program can make: no class extends itself,
\* directly or through others
Hierarchies ==
  {p \in [WalkClasses -> WalkClasses \cup {NoClass}] :
     /\ p["BaseEvent"] = NoClass
     /\ \A c \in WalkClasses : ReachesTop(p, c, Cardinality(WalkClasses))}

\* every class extends BaseEvent
FlatHierarchy == [c \in WalkClasses |-> IF c = "BaseEvent" THEN NoClass ELSE "BaseEvent"]

NoWalk == [start |-> NoClass, cur |-> NoClass, visited |-> <<>>, done |-> TRUE]

RECURSIVE UpSet(_, _)
\* class c and the classes it extends, directly or through others
UpSet(p, c) == IF c = NoClass THEN {} ELSE {c} \cup UpSet(p, p[c])

\* c.eventName is defined: static members are inherited, so a class has it
\* when it or a class it extends is BaseEvent or declares it
HasStaticEventName(c) ==
  \E a \in UpSet(declaredParent, c) : a = "BaseEvent" \/ a \in ownName

\* currentClass.eventName === BaseEvent.eventName, the classes having
\* pairwise distinct names
ReachedBaseEvent(c) == c = "BaseEvent"

\* mutant: the loop never leaves the class it started with
WalkParentNone(c) == NoClass

\* Object.getPrototypeOf(currentClass.prototype)?.constructor
WalkParent(c) == declaredParent[c]

\* the emit that returned last is not recorded
UntrackedPast == [tracked |-> FALSE, result |-> TRUE, log |-> <<>>]

\* -------------------------------------------------------------------- Init
Init ==
  /\ listeners = <<>>
  /\ wrappers = 0
  /\ pc = "idle"
  /\ event = NoClass
  /\ emitInfo = NullInfo
  /\ gen = NoGen
  /\ hasError = FALSE
  /\ result = TRUE
  /\ log = <<>>
  /\ reg0 = <<>>
  /\ onceCalls = [n \in Ids |-> 0]
  /\ calls = [c \in Ids |-> FreeCall]
  /\ micro = <<>>
  /\ lastOp = Untracked
  /\ pastStop = "untracked"
  /\ declared = TestNames
  /\ cache = <<>>
  /\ returned = [c \in NameClasses |-> <<>>]
  /\ declaredParent = FlatHierarchy
  /\ ownName = {}
  /\ walk = NoWalk
  /\ past = UntrackedPast
  /\ ops = MaxOps

\* no emit has returned yet
NoPast == [tracked |-> TRUE, result |-> TRUE, log |-> <<>>]

\* the same, with the emit that returned last recorded in past
InitLate ==
  /\ listeners = <<>>
  /\ wrappers = 0
  /\ pc = "idle"
  /\ event = NoClass
  /\ emitInfo = NullInfo
  /\ gen = NoGen
  /\ hasError = FALSE
  /\ result = TRUE
  /\ log = <<>>
  /\ reg0 = <<>>
  /\ onceCalls = [n \in Ids |-> 0]
  /\ calls = [c \in Ids |-> FreeCall]
  /\ micro = <<>>
  /\ lastOp = Untracked
  /\ pastStop = "untracked"
  /\ declared = TestNames
  /\ cache = <<>>
  /\ returned = [c \in NameClasses |-> <<>>]
  /\ declaredParent = FlatHierarchy
  /\ ownName = {}
  /\ walk = NoWalk
  /\ past = NoPast
  /\ ops = MaxOps

\* the same, for runs of MaxOps + 1 calls
InitSync ==
  /\ listeners = <<>>
  /\ wrappers = 0
  /\ pc = "idle"
  /\ event = NoClass
  /\ emitInfo = NullInfo
  /\ gen = NoGen
  /\ hasError = FALSE
  /\ result = TRUE
  /\ log = <<>>
  /\ reg0 = <<>>
  /\ onceCalls = [n \in Ids |-> 0]
  /\ calls = [c \in Ids |-> FreeCall]
  /\ micro = <<>>
  /\ lastOp = Untracked
  /\ pastStop = "untracked"
  /\ declared = TestNames
  /\ cache = <<>>
  /\ returned = [c \in NameClasses |-> <<>>]
  /\ declaredParent = FlatHierarchy
  /\ ownName = {}
  /\ walk = NoWalk
  /\ past = UntrackedPast
  /\ ops = MaxOps + 1

\* the same, with the registry calls of user code recorded
InitReg ==
  /\ listeners = <<>>
  /\ wrappers = 0
  /\ pc = "idle"
  /\ event = NoClass
  /\ emitInfo = NullInfo
  /\ gen = NoGen
  /\ hasError = FALSE
  /\ result = TRUE
  /\ log = <<>>
  /\ reg0 = <<>>
  /\ onceCalls = [n \in Ids |-> 0]
  /\ calls = [c \in Ids |-> FreeCall]
  /\ micro = <<>>
  /\ lastOp = NoOp
  /\ pastStop = "untracked"
  /\ declared = TestNames
  /\ cache = <<>>
  /\ returned = [c \in NameClasses |-> <<>>]
  /\ declaredParent = FlatHierarchy
  /\ ownName = {}
  /\ walk = NoWalk
  /\ past = UntrackedPast
  /\ ops = MaxOps + 1

\* the same as InitSync, with the stops of returned emits recorded
InitPast ==
  /\ listeners = <<>>
  /\ wrappers = 0
  /\ pc = "idle"
  /\ event = NoClass
  /\ emitInfo = NullInfo
  /\ gen = NoGen
  /\ hasError = FALSE
  /\ result = TRUE
  /\ log = <<>>
  /\ reg0 = <<>>
  /\ onceCalls = [n \in Ids |-> 0]
  /\ calls = [c \in Ids |-> FreeCall]
  /\ micro = <<>>
  /\ lastOp = Untracked
  /\ pastStop = "no"
  /\ declared = TestNames
  /\ cache = <<>>
  /\ returned = [c \in NameClasses |-> <<>>]
  /\ declaredParent = FlatHierarchy
  /\ ownName = {}
  /\ walk = NoWalk
  /\ past = UntrackedPast
  /\ ops = MaxOps + 1

\* no emitter call is made; the classes of NameClasses are declared with any
\* names of Names and no eventName has been read
InitName ==
  /\ listeners = <<>>
  /\ wrappers = 0
  /\ pc = "idle"
  /\ event = NoClass
  /\ emitInfo = NullInfo
  /\ gen = NoGen
  /\ hasError = FALSE
  /\ result = TRUE
  /\ log = <<>>
  /\ reg0 = <<>>
  /\ onceCalls = [n \in Ids |-> 0]
  /\ calls = [c \in Ids |-> FreeCall]
  /\ micro = <<>>
  /\ lastOp = Untracked
  /\ pastStop = "untracked"
  /\ declared \in [NameClasses -> Names]
  /\ cache = <<>>
  /\ returned = [c \in NameClasses |-> <<>>]
  /\ declaredParent = FlatHierarchy
  /\ ownName = {}
  /\ walk = NoWalk
  /\ past = UntrackedPast
  /\ ops = 0

\* the classes are declared in any hierarchy, and the loop of
\* gatherInheritanceListeners starts at any class that has an eventName
InitWalk ==
  /\ listeners = <<>>
  /\ wrappers = 0
  /\ pc = "idle"
  /\ event = NoClass
  /\ emitInfo = NullInfo
  /\ gen = NoGen
  /\ hasError = FALSE
  /\ result = TRUE
  /\ log = <<>>
  /\ reg0 = <<>>
  /\ onceCalls = [n \in Ids |-> 0]
  /\ calls = [c \in Ids |-> FreeCall]
  /\ micro = <<>>
  /\ lastOp = Untracked
  /\ pastStop = "untracked"
  /\ declared = TestNames
  /\ cache = <<>>
  /\ returned = [c \in NameClasses |-> <<>>]
  /\ declaredParent \in Hierarchies
  /\ ownName \in SUBSET (WalkClasses \ {"BaseEvent"})
  /\ \E c \in WalkClasses :
       /\ HasStaticEventName(c)
       /\ walk = [start |-> c, cur |-> c, visited |-> <<>>, done |-> FALSE]
  /\ past = UntrackedPast
  /\ ops = 0

\* a method of the emitter is called by user code
UserCall == ops > 0 /\ ops' = ops - 1

emitVars == <<pc, event, emitInfo, gen, hasError, result, log, reg0, onceCalls>>

\* ------------------------------------------------- registry operations
On(c, f) ==
  /\ pc = "idle"
  /\ UserCall
  /\ listeners' = OnReg(listeners, c, PlainRef(f))
  /\ lastOp' = Record(lastOp, "on", c, f, listeners)
  /\ UNCHANGED <<pastStop, nameVars, walkVars, past>>
  /\ UNCHANGED <<wrappers, emitVars, calls, micro>>

Off(c, f) ==
  /\ pc = "idle"
  /\ UserCall
  /\ listeners' = OffReg(listeners, c, PlainRef(f))
  /\ lastOp' = Record(lastOp, "off", c, f, listeners)
  /\ UNCHANGED <<pastStop, nameVars, walkVars, past>>
  /\ UNCHANGED <<wrappers, emitVars, calls, micro>>

Once(c, f) ==
  /\ pc = "idle"
  /\ UserCall
  /\ wrappers' = wrappers + 1
  /\ listeners' = OnReg(listeners, c, WrapperRef(f, wrappers + 1, c))
  /\ lastOp' = Record(lastOp, "once", c, f, listeners)
  /\ UNCHANGED <<pastStop, nameVars, walkVars, past>>
  /\ UNCHANGED <<emitVars, calls, micro>>

RemoveAllListenersFor(c) ==
  /\ pc = "idle"
  /\ UserCall
  /\ listeners' = RemoveForReg(listeners, c)
  /\ lastOp' = Record(lastOp, "removeAllListenersFor", c, "f1", listeners)
  /\ UNCHANGED <<pastStop, nameVars, walkVars, past>>
  /\ UNCHANGED <<wrappers, emitVars, calls, micro>>

RemoveAllListeners ==
  /\ pc = "idle"
  /\ UserCall
  /\ listeners' = ClearReg(listeners)
  /\ lastOp' = Record(lastOp, "removeAllListeners", NoClass, "f1", listeners)
  /\ UNCHANGED <<pastStop, nameVars, walkVars, past>>
  /\ UNCHANGED <<wrappers, emitVars, calls, micro>>

\* ------------------------------------------------------------- handlers
\* handlers.removeAllListeners: this.removeAllListenersFor.bind(this)
BoundRemoveAllListeners(reg, c) == RemoveForReg(reg, c)

\* handlers.removeAllListeners(c) is called; the function is typed as
\* removeAllListenersFor and reads event.eventName, so it is given a class
HandlersRemoveAllListeners(c) ==
  /\ pc = "idle"
  /\ UserCall
  /\ listeners' = BoundRemoveAllListeners(listeners, c)
  /\ lastOp' = Record(lastOp, "handlers.removeAllListeners", c, "f1", listeners)
  /\ UNCHANGED <<pastStop, nameVars, walkVars, past>>
  /\ UNCHANGED <<wrappers, emitVars, calls, micro>>

\* ----------------------------------------------------------------- emit
\* emit(event, args) is called: new EmitInfo, hasError = false, the generator
\* is created
EmitCall(c) ==
  /\ pc = "idle"
  /\ UserCall
  /\ pc' = "emit"
  /\ event' = c
  /\ emitInfo' = NewEmitInfo(c)
  /\ gen' = StartGen(c)
  /\ hasError' = FALSE
  /\ log' = <<>>
  /\ reg0' = listeners
  /\ lastOp' = Aged(lastOp)
  /\ UNCHANGED <<pastStop, nameVars, walkVars, past>>
  /\ UNCHANGED <<listeners, wrappers, result, onceCalls, calls, micro>>

\* the promise a listener returned to emit, which does nothing with the
\* value of listener(args, emitInfo)
ReturnedPromise(out) == IF out = "promise" THEN "pending" ELSE "none"

\* One round of the for loop: the generator yields a listener, which is
\* called inside try/catch.  The listener may call stopEventPropagation, makes
\* the emitter call `call` (NoCall for none) and then ends in one of the
\* ways outs: it returns, throws, or returns a promise.
InvokeWith(call, outs) ==
  /\ pc = "emit"
  /\ LET n == GenNext(listeners, emitInfo, gen)
     IN  /\ ~n.done
         /\ \E stop \in BOOLEAN, out \in outs :
              LET r1 == ApplyCall(listeners, call, wrappers + 1)
                  g1 == Detach(listeners, n.g, CallReplaced(listeners, call))
                  tc == TryCatch(out)
              IN  /\ listeners' = CallListener(r1, n.h, out)
                  /\ gen' = Detach(r1, g1, ReplacedKeys(r1, n.h, out))
                  /\ wrappers' = IF call.op = "once" THEN wrappers + 1 ELSE wrappers
                  /\ emitInfo' = StopEventPropagation(
                                    OwnInfo(emitInfo, Nested(listeners, call).info), stop)
                  /\ hasError' = RecordError(hasError, tc = "caught")
                  /\ pc' = IF tc = "uncaught" THEN "emitThrew" ELSE "emit"
                  /\ log' = Append(log, [h |-> n.h, lvl |-> n.lvl, stop |-> stop,
                                         threw |-> (out = "throw"), call |-> call,
                                         errs |-> ConsoleError(tc = "caught"),
                                         nested |-> Nested(listeners, call).invoked,
                                         seen |-> PassedInfo(emitInfo, n.lvl).event,
                                         flag |-> PassedInfo(emitInfo, n.lvl).cont,
                                         promise |-> ReturnedPromise(out)])
                  /\ onceCalls' = CountCalls(IF n.h.w # 0
                                             THEN [onceCalls EXCEPT ![n.h.w] = Bump(@)]
                                             ELSE onceCalls,
                                             Nested(listeners, call).invoked)
  /\ UNCHANGED <<event, result, reg0, calls, micro, lastOp, pastStop, nameVars, walkVars, past>>

\* the listener returns or throws
Invoke(call) == InvokeWith(call, SyncOutcomes)

\* the listener calls no method of the emitter
EmitInvoke ==
  /\ Invoke(NoCall)
  /\ UNCHANGED ops

\* the listener calls on, off, once, removeAllListenersFor or
\* removeAllListeners while it is being dispatched
EmitInvokeCalling ==
  /\ UserCall
  /\ \E call \in ListenerCalls \ {NoCall} : Invoke(call)

\* the listener calls emit while it is being dispatched
EmitInvokeEmitting ==
  /\ UserCall
  /\ \E call \in EmitCalls : Invoke(call)

\* the listener returns without calling the emitter
EmitInvokeReturn ==
  /\ InvokeWith(NoCall, {"return"})
  /\ UNCHANGED ops

\* the listener calls emit while it is being dispatched, and returns; the
\* listeners of that emit may stop its propagation
EmitInvokeEmittingStop ==
  /\ UserCall
  /\ \E call \in EmitCalls \cup EmitCallsStopping : InvokeWith(call, {"return"})

\* the listener is an async function, or returns a promise: the call
\* returns normally
EmitInvokePromise ==
  /\ InvokeWith(NoCall, {"promise"})
  /\ UNCHANGED ops

\* mutant: emit attached the catch handler of emitAsync to the promise
UnhandledRejectionLogged(errs, ok) == IF ok THEN errs ELSE errs + ConsoleError(TRUE)

\* the console.error calls of the emitter for a listener once the promise it
\* returned to emit is settled: emit attached no handler to the promise
UnhandledRejection(errs, ok) == errs

\* a promise that a listener returned to the emit that returned last is
\* fulfilled or rejected; emit is synchronous, so this happens after its
\* return
SettleLate(i, ok) ==
  /\ pc = "idle"
  /\ past.tracked
  /\ i \in 1..Len(past.log)
  /\ past.log[i].promise = "pending"
  /\ past' = [past EXCEPT
                !.log[i].promise = IF ok THEN "fulfilled" ELSE "rejected",
                !.log[i].errs = UnhandledRejection(@, ok)]
  /\ UNCHANGED <<listeners, wrappers, emitVars, calls, micro, lastOp, pastStop,
                 nameVars, walkVars, ops>>

\* the generator is exhausted: return !hasError
EmitFinish ==
  /\ pc = "emit"
  /\ GenNext(listeners, emitInfo, gen).done
  /\ pc' = "emitDone"
  /\ gen' = NoGen
  /\ result' = EmitResult(hasError)
  /\ UNCHANGED <<listeners, wrappers, event, emitInfo, hasError, log, reg0,
                 onceCalls, calls, micro, lastOp, pastStop, nameVars, walkVars, past>>
  /\ UNCHANGED ops

\* the caller has the result; the EmitInfo is garbage
EmitReturn ==
  /\ pc = "emitDone"
  /\ pc' = "idle"
  /\ event' = NoClass
  /\ emitInfo' = NullInfo
  /\ hasError' = FALSE
  /\ result' = TRUE
  /\ log' = <<>>
  /\ reg0' = <<>>
  /\ pastStop' = IF pastStop = "no" /\ ~emitInfo.cont THEN "yes" ELSE pastStop
  /\ past' = IF past.tracked THEN [tracked |-> TRUE, result |-> result, log |-> log]
              ELSE past
  /\ UNCHANGED <<listeners, wrappers, gen, onceCalls, calls, micro, lastOp, nameVars, walkVars>>
  /\ UNCHANGED ops

\* ------------------------------------------------------------ emitAsync
\* mutant: only the first listener's call is queued
EnqueueFirstOnly(q, c, i, n) == IF n = 0 THEN q ELSE Append(q, <<c, 1>>)

RECURSIVE Enqueue(_, _, _, _)
\* the then-callbacks of listeners i..n of call c are appended to the queue
Enqueue(q, c, i, n) == IF i > n THEN q ELSE Enqueue(Append(q, <<c, i>>), c, i + 1, n)

\* emitAsync(event, args) runs up to "await Promise.all(promises)": every
\* listener of the chain is collected and its call queued as a microtask
EmitAsyncCall(c, k) ==
  /\ pc = "idle"
  /\ UserCall
  /\ ~calls[c].active
  /\ \A d \in Ids : d < c => calls[d].active
  /\ LET tasks == CollectAll(listeners, StartGen(k))
     IN  /\ calls' = [calls EXCEPT ![c] =
                        [active |-> TRUE, ev |-> k, info |-> NewEmitInfo(k),
                         tasks |-> tasks, resolved |-> "none",
                         chain0 |-> Expected(listeners, k)]]
         /\ micro' = Enqueue(micro, c, 1, Len(tasks))
  /\ UNCHANGED <<listeners, wrappers, emitVars, lastOp, pastStop, nameVars, walkVars, past>>

\* The first queued microtask runs: await listener(args, emitInfo), the
\* listener ending in one of the ways outs.  Once the queue is being drained
\* no user code runs until it is empty.
RunTaskWith(outs) ==
  /\ pc \in {"idle", "micro"}
  /\ micro # <<>>
  /\ pc' = IF Tail(micro) = <<>> THEN "idle" ELSE "micro"
  /\ LET c == Head(micro)[1]
         i == Head(micro)[2]
         h == calls[c].tasks[i].h
     IN  \E stop \in BOOLEAN, out \in outs :
           /\ listeners' = CallListener(listeners, h, out)
           /\ calls' = [calls EXCEPT
                          ![c].info = StopEventPropagation(@, stop),
                          ![c].tasks[i].stop = stop,
                          ![c].tasks[i].hst = ListenerState(h, out),
                          ![c].tasks[i].inner = WrappedPromise(h, out),
                          ![c].tasks[i].errs =
                             ConsoleError(ListenerState(h, out) = "threw"),
                          ![c].tasks[i].seen =
                             PassedInfo(calls[c].info, calls[c].tasks[i].lvl).event,
                          ![c].tasks[i].flag =
                             PassedInfo(calls[c].info, calls[c].tasks[i].lvl).cont,
                          ![c].tasks[i].live =
                             IsRegistered(listeners, calls[c].tasks[i].lvl, h)]
  /\ micro' = Tail(micro)
  /\ UNCHANGED <<wrappers, event, emitInfo, gen, hasError, result, log, reg0,
                 onceCalls, lastOp, pastStop, nameVars, walkVars, past>>
  /\ UNCHANGED ops

\* the listener returns, throws, or returns a promise
RunTask == RunTaskWith(AsyncOutcomes)

\* the listener returns
RunTaskReturn == RunTaskWith({"return"})

\* a promise returned by a listener, or by the function a once wrapper
\* called, is fulfilled or rejected
SettleTask(c, i, ok) ==
  /\ pc \in {"idle", "micro"}
  /\ calls[c].active
  /\ \/ /\ calls[c].tasks[i].hst = "pending"
        /\ calls' = [calls EXCEPT
                       ![c].tasks[i].hst = IF ok THEN "fulfilled" ELSE "rejected",
                       ![c].tasks[i].errs = ConsoleError(~ok)]
     \/ /\ calls[c].tasks[i].inner = "pending"
        /\ calls' = [calls EXCEPT
                       ![c].tasks[i].inner = IF ok THEN "fulfilled" ELSE "rejected"]
  /\ UNCHANGED <<listeners, wrappers, emitVars, micro, lastOp, pastStop, nameVars, walkVars, past>>
  /\ UNCHANGED ops

\* Promise.all(promises) is fulfilled: return results.every(success => success)
ResolveCall(c) ==
  /\ pc = "idle"
  /\ calls[c].active
  /\ calls[c].resolved = "none"
  /\ LET res == [i \in 1..Len(calls[c].tasks) |-> TaskResult(calls[c].tasks[i].hst)]
     IN  /\ \/ \E i \in DOMAIN res : res[i] = "reject"
            \/ \A i \in DOMAIN res : res[i] # "wait"
         /\ calls' = [calls EXCEPT ![c].resolved =
                        IF \E i \in DOMAIN res : res[i] = "reject" THEN "rejected"
                        ELSE IF \A i \in DOMAIN res : res[i] = "true" THEN "true"
                        ELSE "false"]
  /\ UNCHANGED <<listeners, wrappers, emitVars, micro, lastOp, pastStop, nameVars, walkVars, past>>
  /\ UNCHANGED ops

\* the caller has the resolved value
AwaitReturn(c) ==
  /\ pc = "idle"
  /\ calls[c].active
  /\ calls[c].resolved # "none"
  /\ calls' = [calls EXCEPT ![c] = FreeCall]
  /\ UNCHANGED <<listeners, wrappers, emitVars, micro, lastOp, pastStop, nameVars, walkVars, past>>
  /\ UNCHANGED ops

\* ----------------------------------------------------- BaseEvent.eventName
\* class c's static getter eventName is read: the name is computed and cached
\* on the first read, and the cached string is returned
GetEventName(c) ==
  /\ Len(returned[c]) < MaxReads
  /\ LET key == CacheKey(c)
         filled == IF ~Has(cache, key)
                   THEN MapSet(cache, key, TemplateString(declared[c]))
                   ELSE cache
     IN  /\ cache' = filled
         /\ returned' = [returned EXCEPT ![c] = Append(@, filled[key])]
  /\ UNCHANGED <<listeners, wrappers, emitVars, calls, micro, lastOp, pastStop,
                 declared, walkVars, past, ops>>

\* ------------------------------------ gatherInheritanceListeners' loop
\* One round of the do-while loop, for a registry without listeners: the
\* class is visited (its listeners are looked up), then the loop ends at
\* BaseEvent or when the superclass has no eventName, and goes on with the
\* superclass otherwise.
WalkStep ==
  /\ ~walk.done
  /\ LET c == walk.cur
         parentClass == WalkParent(c)
         goOn == /\ ~ReachedBaseEvent(c)
                 /\ parentClass # NoClass
                 /\ HasStaticEventName(parentClass)
     IN  walk' = [walk EXCEPT !.visited = Append(@, c),
                              !.cur = IF goOn THEN parentClass ELSE c,
                              !.done = ~goOn]
  /\ UNCHANGED <<listeners, wrappers, emitVars, calls, micro, lastOp, pastStop,
                 nameVars, declaredParent, ownName, past, ops>>

Next ==
  \/ \E c \in Classes, f \in Fns : On(c, f)
  \/ \E c \in Classes, f \in Fns : Off(c, f)
  \/ \E c \in Classes, f \in Fns : Once(c, f)
  \/ \E c \in Classes : RemoveAllListenersFor(c)
  \/ RemoveAllListeners
  \/ \E c \in Classes : EmitCall(c)
  \/ EmitInvoke
  \/ EmitFinish
  \/ EmitReturn
  \/ \E c \in Ids, k \in Classes : EmitAsyncCall(c, k)
  \/ RunTask
  \/ \E c \in Ids : \E i \in 1..Len(calls[c].tasks), ok \in BOOLEAN : SettleTask(c, i, ok)
  \/ \E c \in Ids : ResolveCall(c)
  \/ \E c \in Ids : AwaitReturn(c)

\* every interleaving of registry calls, emit and emitAsync
Spec == Init /\ [][Next]_vars

NextSync ==
  \/ \E c \in Classes, f \in Fns : On(c, f)
  \/ \E c \in Classes, f \in Fns : Off(c, f)
  \/ \E c \in Classes, f \in Fns : Once(c, f)
  \/ \E c \in Classes : RemoveAllListenersFor(c)
  \/ RemoveAllListeners
  \/ \E c \in Classes : EmitCall(c)
  \/ EmitInvoke
  \/ EmitFinish
  \/ EmitReturn

\* runs in which user code calls the registry methods and emit only
SpecSync == InitSync /\ [][NextSync]_vars

NextReentrant == NextSync \/ EmitInvokeEmitting

\* registry calls and emits by user code, and emits by listeners
SpecReentrant == InitSync /\ [][NextReentrant]_vars

NextOverlap ==
  \/ \E c \in Classes, f \in Fns : On(c, f)
  \/ \E c \in Classes : EmitCall(c)
  \/ EmitInvokeReturn
  \/ EmitInvokeEmittingStop
  \/ EmitFinish
  \/ EmitReturn
  \/ \E c \in Ids, k \in Classes : EmitAsyncCall(c, k)
  \/ RunTaskReturn
  \/ \E c \in Ids : ResolveCall(c)
  \/ \E c \in Ids : AwaitReturn(c)

\* runs in which emissions overlap: user code registers with on and calls
\* emit and emitAsync, and listeners call emit; every listener returns,
\* having called stopEventPropagation or not
SpecOverlap == InitSync /\ [][NextOverlap]_vars

\* The scheduling the JavaScript run-time guarantees: a running emit goes on
\* to its return (listeners return or throw), the microtask queue is drained,
\* and a Promise.all whose promises have all settled is fulfilled.  Nothing
\* makes a promise returned by a listener settle.
Fairness ==
  /\ WF_vars(EmitInvoke)
  /\ WF_vars(EmitFinish)
  /\ WF_vars(EmitReturn)
  /\ WF_vars(RunTask)
  /\ \A c \in Ids : WF_vars(ResolveCall(c))

SpecLive == Init /\ [][Next]_vars /\ Fairness

\* the same runs, with the stops of returned emits recorded in pastStop
SpecPast == InitPast /\ [][NextSync]_vars

NextName == \E c \in NameClasses : GetEventName(c)

\* reads of eventName, in any order, of classes declared with any names
SpecName == InitName /\ [][NextName]_vars

\* handlers.on, off, once and emit are the methods on, off, once and emit
\* bound to the emitter
NextHandlers ==
  \/ \E c \in Classes, f \in Fns : On(c, f)
  \/ \E c \in Classes, f \in Fns : Off(c, f)
  \/ \E c \in Classes, f \in Fns : Once(c, f)
  \/ \E c \in Classes : HandlersRemoveAllListeners(c)
  \/ \E c \in Classes : EmitCall(c)
  \/ EmitInvoke
  \/ EmitFinish
  \/ EmitReturn

\* runs in which user code calls the emitter through emitter.handlers, the
\* registry calls being recorded in lastOp
SpecHandlers == InitReg /\ [][NextHandlers]_vars

NextLate ==
  \/ NextSync
  \/ EmitInvokePromise
  \/ \E i \in 1..MaxOps, ok \in BOOLEAN : SettleLate(i, ok)

\* runs in which listeners may return promises to emit, which settle after
\* emit has returned
SpecLate == InitLate /\ [][NextLate]_vars

\* walks of the class hierarchy from any class of any hierarchy
SpecWalk == InitWalk /\ [][WalkStep]_vars

\* the same runs, with the registry calls recorded in lastOp
SpecReg == InitReg /\ [][NextSync]_vars

NextDispatch ==
  \/ NextSync
  \/ EmitInvokeCalling

\* runs in which listeners too call the registry methods, during dispatch
SpecDispatch == InitSync /\ [][NextDispatch]_vars

\* ======================================================== properties
\* the running emit has left its for loop and is about to return
EmitDone == pc = "emitDone"

\* the invocations of the running emit: listener and the class it was yielded for
Invoked == [i \in 1..Len(log) |-> [h |-> log[i].h, lvl |-> log[i].lvl]]

AtLevel(seq, c) == SelectSeq(seq, LAMBDA e : e.lvl = c)

\* every registration that class c had when emit was called has been invoked,
\* once each, in registration order, and nothing else was invoked for c
LevelComplete(c) == AtLevel(Invoked, c) = Tag(LevelRegs(reg0, c), c)

NoStop == \A i \in 1..Len(log) : ~log[i].stop

NoThrow == \A i \in 1..Len(log) : ~log[i].threw

\* a listener of a class strictly below c called stopEventPropagation
StoppedBelow(c) == \E i \in 1..Len(log) : log[i].stop /\ c \in Ancestors(log[i].lvl)

\* the listeners registered on some class of cs
RegisteredOn(reg, cs) ==
  UNION {{LevelRegs(reg, c)[j] : j \in 1..Len(LevelRegs(reg, c))} : c \in cs}

\* C1: when emit(K, p) has run and no listener called stopEventPropagation,
\* the listeners invoked are exactly those registered on K or on an ancestor
\* of K up to the root; nothing is invoked for a class outside K's chain, so
\* a listener registered only on descendants or siblings of K is not invoked.
C1_ExactlyChainListeners ==
  (EmitDone /\ NoStop) =>
     LET K == emitInfo.event
         invoked == {log[i].h : i \in 1..Len(log)}
     IN  /\ invoked = RegisteredOn(reg0, ChainSet(K))
         /\ \A i \in 1..Len(log) : log[i].lvl \in ChainSet(K)
         /\ \A h \in RegisteredOn(reg0, Classes \ ChainSet(K)) :
              h \notin RegisteredOn(reg0, ChainSet(K)) => h \notin invoked

\* emit(BaseOrderEvent) invoked the listener of the root, and some listener
\* registered only on its subclasses was left alone
C1_Witness ==
  /\ EmitDone /\ NoStop
  /\ emitInfo.event = "BaseOrderEvent"
  /\ \E i \in 1..Len(log) : log[i].lvl = "BaseEvent"
  /\ \E h \in RegisteredOn(reg0, {"OrderCreatedEvent", "OrderCancelledEvent"}) :
       \A i \in 1..Len(log) : log[i].h # h

C3_StopAfterLevel ==
  \A i \in 1..Len(log) :
    log[i].stop =>
      /\ \A j \in 1..Len(log) : log[j].lvl \notin Ancestors(log[i].lvl)
      /\ EmitDone => LevelComplete(log[i].lvl)

\* the first of two listeners of a class called stopEventPropagation, the
\* second was still invoked, and a listener was registered on the root
C3_Witness ==
  /\ EmitDone
  /\ \E i \in 1..Len(log) :
       /\ log[i].stop
       /\ i < Len(log)
       /\ log[i + 1].lvl = log[i].lvl
       /\ log[i].lvl # "BaseEvent"
       /\ LevelRegs(reg0, "BaseEvent") # <<>>

\* C5: emit returns true exactly when no invoked listener threw; so also when
\* nothing was registered on the chain, and when propagation was stopped.
C5_TrueIffNoThrow == EmitDone => (result = NoThrow)

\* propagation was stopped before a registered ancestor listener, nothing
\* threw, and emit returns true
C5_Witness ==
  /\ EmitDone /\ result = TRUE /\ NoThrow /\ ~NoStop
  /\ Len(log) < Len(Expected(reg0, emitInfo.event))

\* nothing is registered on the chain of the emitted class and emit returns true
C5_WitnessNoListeners ==
  /\ EmitDone /\ result = TRUE
  /\ Expected(reg0, emitInfo.event) = <<>>
  /\ reg0 # <<>>

\* C6, for every emit: when a listener throws, every registration of its
\* class and of every ancestor class is still invoked, and emit returns false.
C6_Original ==
  EmitDone =>
    \A i \in 1..Len(log) :
      log[i].threw =>
        /\ result = FALSE
        /\ LevelComplete(log[i].lvl)
        /\ \A a \in Ancestors(log[i].lvl) : LevelComplete(a)

\* C6: when a listener throws, emit returns false, every registration
\* of its class is still invoked, and so is every registration of each
\* ancestor class that no stopEventPropagation call below it cut off.
C6_ErrorDoesNotStop ==
  EmitDone =>
    \A i \in 1..Len(log) :
      log[i].threw =>
        /\ result = FALSE
        /\ LevelComplete(log[i].lvl)
        /\ \A a \in Ancestors(log[i].lvl) : ~StoppedBelow(a) => LevelComplete(a)

\* a listener threw, the next listener of the same class and a listener of an
\* ancestor class were invoked after it, and emit returns false
C6_Witness ==
  /\ EmitDone /\ result = FALSE
  /\ \E i \in 1..Len(log) :
       /\ log[i].threw
       /\ i + 1 < Len(log)
       /\ log[i + 1].lvl = log[i].lvl
       /\ ~log[i + 1].threw
       /\ log[Len(log)].lvl \in Ancestors(log[i].lvl)

\* C9: a listener registered with once is invoked by the first emit that
\* dispatches its class and by no later emit, and a listener registered with
\* on by every such emit: no wrapper is invoked by emit a second time, and an
\* emit invokes every registration of each class it dispatches.
C9_OnceFiresOnce ==
  /\ \A n \in Ids : onceCalls[n] <= 1
  /\ EmitDone =>
       \A c \in ChainSet(emitInfo.event) : ~StoppedBelow(c) => LevelComplete(c)

\* the listeners emitAsync call c collected, with the class of each
TaskHL(c) ==
  [i \in 1..Len(calls[c].tasks) |-> [h |-> calls[c].tasks[i].h, lvl |-> calls[c].tasks[i].lvl]]

Queued(c, i) == \E q \in 1..Len(micro) : micro[q] = <<c, i>>

Resolved(c) == calls[c].active /\ calls[c].resolved # "none"

Settled == {"returned", "threw", "fulfilled", "rejected"}

\* C4: whatever stopEventPropagation calls the listeners make, emitAsync(K, p)
\* runs every registration that K and its ancestors had when it was called: a
\* collected listener waits in the microtask queue until it is invoked, and
\* all have been invoked when the call resolves.
C4_AsyncIgnoresStop ==
  \A c \in Ids :
    calls[c].active =>
      /\ TaskHL(c) = calls[c].chain0
      /\ \A i \in 1..Len(calls[c].tasks) :
           calls[c].tasks[i].hst = "queued" => Queued(c, i)
      /\ Resolved(c) =>
           \A i \in 1..Len(calls[c].tasks) : calls[c].tasks[i].hst # "queued"

\* a listener called stopEventPropagation, and a listener of an ancestor class
\* was invoked after it by the same emitAsync call
C4_Witness ==
  \E c \in Ids :
    /\ Resolved(c)
    /\ ~calls[c].info.cont
    /\ \E i, j \in 1..Len(calls[c].tasks) :
         /\ calls[c].tasks[i].stop
         /\ calls[c].tasks[j].lvl \in Ancestors(calls[c].tasks[i].lvl)
         /\ calls[c].tasks[j].hst \in Settled

\* C7: emitAsync resolves to true only if every listener it invoked returned
\* or had its promise fulfilled, to false if one threw or had its promise
\* rejected, to true when it collected no listener; and every collected
\* listener has been invoked, the ones after a failing one too.
C7_AsyncResult ==
  \A c \in Ids :
    Resolved(c) =>
      LET t == calls[c].tasks
      IN  /\ calls[c].resolved = "true" =>
               \A i \in 1..Len(t) : t[i].hst \in {"returned", "fulfilled"}
          /\ (\E i \in 1..Len(t) : t[i].hst \in {"threw", "rejected"}) =>
               calls[c].resolved = "false"
          /\ t = <<>> => calls[c].resolved = "true"
          /\ \A i \in 1..Len(t) : t[i].hst # "queued"

\* the first listener threw, a later one returned a promise that was
\* fulfilled, and the call resolved to false
C7_Witness ==
  \E c \in Ids :
    /\ Resolved(c)
    /\ calls[c].resolved = "false"
    /\ Len(calls[c].tasks) >= 2
    /\ calls[c].tasks[1].hst = "threw"
    /\ calls[c].tasks[2].hst = "fulfilled"

\* emitAsync resolved to true with no listener on the chain
C7_WitnessNoListeners ==
  \E c \in Ids : Resolved(c) /\ calls[c].tasks = <<>> /\ listeners # <<>>

\* C8: when the promise of emitAsync has resolved, every listener the call
\* invoked has returned or thrown, or the promise it returned has been
\* fulfilled or rejected.
C8_ResolvesAfterAllSettled ==
  \A c \in Ids :
    Resolved(c) =>
      \A i \in 1..Len(calls[c].tasks) : calls[c].tasks[i].hst \in Settled

\* the call resolved after the promises of two listeners had settled
C8_Witness ==
  \E c \in Ids :
    /\ Resolved(c)
    /\ Len(calls[c].tasks) >= 2
    /\ \A i \in 1..Len(calls[c].tasks) : calls[c].tasks[i].hst \in {"fulfilled", "rejected"}

\* the registrations of the root are run by emitAsync call c
RootTasksRun(c) ==
  /\ AtLevel(TaskHL(c), "BaseEvent") = AtLevel(calls[c].chain0, "BaseEvent")
  /\ \A i \in 1..Len(calls[c].tasks) :
       calls[c].tasks[i].lvl = "BaseEvent" =>
         /\ calls[c].tasks[i].hst = "queued" => Queued(c, i)
         /\ Resolved(c) => calls[c].tasks[i].hst # "queued"

\* C10, for every emit: every emit and every emitAsync, of whatever class, invokes
\* every listener registered on the root BaseEvent.
C10_Original ==
  /\ EmitDone => LevelComplete("BaseEvent")
  /\ \A c \in Ids : calls[c].active => RootTasksRun(c)

\* C10: every emitAsync invokes every listener registered on the
\* root, and so does every emit in which no listener of a class below the
\* root called stopEventPropagation.
C10_RootListener ==
  /\ (EmitDone /\ ~StoppedBelow("BaseEvent")) => LevelComplete("BaseEvent")
  /\ \A c \in Ids : calls[c].active => RootTasksRun(c)

\* an emit and an emitAsync of classes below the root have both invoked the
\* listener of the root
C10_Witness ==
  /\ EmitDone
  /\ emitInfo.event # "BaseEvent"
  /\ \E i \in 1..Len(log) : log[i].lvl = "BaseEvent"
  /\ \E c \in Ids :
       /\ Resolved(c)
       /\ calls[c].ev # "BaseEvent"
       /\ \E i \in 1..Len(calls[c].tasks) : calls[c].tasks[i].lvl = "BaseEvent"

\* C11: no exception leaves emit and the promise of emitAsync is never
\* rejected, whatever the listeners do; when a listener threw or its promise
\* was rejected, emit returns false and emitAsync resolves to false.
C11_FailureOnlyAsFalse ==
  /\ pc # "emitThrew"
  /\ EmitDone => (~NoThrow => result = FALSE)
  /\ \A c \in Ids :
       /\ calls[c].resolved # "rejected"
       /\ (/\ Resolved(c)
           /\ \E i \in 1..Len(calls[c].tasks) :
                calls[c].tasks[i].hst \in {"threw", "rejected"})
            => calls[c].resolved = "false"

\* a listener threw in an emit that returns false, and an emitAsync call whose
\* listener returned a promise that was rejected has resolved to false
C11_Witness ==
  /\ EmitDone /\ ~NoThrow /\ result = FALSE
  /\ \E c \in Ids :
       /\ calls[c].resolved = "false"
       /\ \E i \in 1..Len(calls[c].tasks) : calls[c].tasks[i].hst = "rejected"

\* invocation e ended with the invoked listener taking itself out of the
\* registry: a once wrapper that returned, or a listener calling off(K, itself)
SelfRemoval(e) ==
  \/ e.h.w # 0 /\ ~e.threw /\ e.call.op = "none"
  \/ e.h.w = 0 /\ e.call = [op |-> "off", cls |-> e.lvl, fn |-> e.h.fn]

\* the only registry changes made during the running emit are self-removals
OnlySelfRemovals == \A i \in 1..Len(log) : log[i].call.op = "none" \/ SelfRemoval(log[i])

\* C12: when listeners take themselves out of the registry while emit is
\* invoking them, the emit still invokes every registration their class had
\* when emit was called, once each and in order: none skipped, none twice.
C12_SelfRemovalKeepsIteration ==
  (EmitDone /\ OnlySelfRemovals) =>
     \A i \in 1..Len(log) : SelfRemoval(log[i]) => LevelComplete(log[i].lvl)

\* a listener called off on itself, and a once wrapper of the same class was
\* invoked after it and removed itself too
C12_Witness ==
  /\ EmitDone /\ OnlySelfRemovals
  /\ \E i, j \in 1..Len(log) :
       /\ i < j
       /\ log[i].lvl = log[j].lvl
       /\ SelfRemoval(log[i]) /\ log[i].h.w = 0
       /\ SelfRemoval(log[j]) /\ log[j].h.w # 0

\* the positions of the microtask queue that hold task i of call c
QueuedAt(c, i) == {q \in 1..Len(micro) : micro[q] = <<c, i>>}

\* C13: the listeners an emitAsync call runs are the registrations the chain
\* of its class had when the call was made, whatever is registered or
\* unregistered afterwards; each is queued once until it is invoked, is not
\* queued again afterwards, and all have been invoked when the call resolves.
C13_CollectedAtCallTime ==
  \A c \in Ids :
    calls[c].active =>
      /\ TaskHL(c) = calls[c].chain0
      /\ \A i \in 1..Len(calls[c].tasks) :
           Cardinality(QueuedAt(c, i)) = IF calls[c].tasks[i].hst = "queued" THEN 1 ELSE 0
      /\ Resolved(c) =>
           \A i \in 1..Len(calls[c].tasks) : calls[c].tasks[i].hst \in Settled

\* a listener that user code had unregistered after the call was made was
\* still invoked by the call
C13_Witness ==
  \E c \in Ids :
    /\ Resolved(c)
    /\ \E i \in 1..Len(calls[c].tasks) :
         /\ calls[c].tasks[i].h.w = 0
         /\ ~calls[c].tasks[i].live
         /\ calls[c].tasks[i].hst \in Settled

\* a listener registered on the emitted class after the call was made is not
\* among the listeners the call has run
C13_WitnessLateListener ==
  \E c \in Ids :
    /\ Resolved(c)
    /\ calls[c].tasks # <<>>
    /\ \E l \in RegisteredOn(listeners, {calls[c].ev}) :
         \A i \in 1..Len(calls[c].tasks) : calls[c].tasks[i].h # l

\* the elements of seq other than l, in order
Others(seq, l) == SelectSeq(seq, LAMBDA x : x # l)

\* the listeners of seq that are no once wrappers, in order
Plain(seq) == SelectSeq(seq, LAMBDA x : x.w = 0)

\* the listeners the running emit invoked for class c, in order
InvokedFor(c) ==
  LET es == SelectSeq(log, LAMBDA e : e.lvl = c)
  IN  [i \in 1..Len(es) |-> es[i].h]

\* user code has just called a registry method: nothing ran since
JustCalled(op) == lastOp.op = op /\ lastOp.age = 0 /\ pc = "idle"

\* C14: after off(K, h) the listeners stored for K are the ones stored before
\* other than h, in the same order, and every other class has the listeners
\* it had; the first emit after it that reaches K invokes those listeners of K
\* in that order, and every later emit the ones among them that are no once
\* wrappers.
C14_OffRemovesOnlyH ==
  lastOp.op = "off" =>
    LET K == lastOp.cls
        rest == Others(LevelRegs(lastOp.before, K), PlainRef(lastOp.fn))
    IN  /\ JustCalled("off") =>
             /\ LevelRegs(listeners, K) = rest
             /\ \A d \in Classes \ {K} :
                  LevelRegs(listeners, d) = LevelRegs(lastOp.before, d)
        /\ (EmitDone /\ K \in ChainSet(event) /\ ~StoppedBelow(K)) =>
             /\ lastOp.age = 1 => InvokedFor(K) = rest
             /\ Plain(InvokedFor(K)) = Plain(rest)

\* off(K, h) has removed h from between two other listeners of K
C14_Witness ==
  /\ JustCalled("off")
  /\ Len(LevelRegs(lastOp.before, lastOp.cls)) = 3
  /\ LevelRegs(lastOp.before, lastOp.cls)[2] = PlainRef(lastOp.fn)
  /\ Len(LevelRegs(listeners, lastOp.cls)) = 2

\* off(K, h) removed h, and the next emit invoked the other listener of K
C14_WitnessLaterEmit ==
  /\ lastOp.op = "off" /\ lastOp.age = 1 /\ EmitDone
  /\ IsRegistered(lastOp.before, lastOp.cls, PlainRef(lastOp.fn))
  /\ Len(InvokedFor(lastOp.cls)) = 1

\* C15: off(K, h) with h not among the listeners stored for K, or with no
\* entry for K, leaves the registry as it was.
C15_OffUnknownIsNoOp ==
  (/\ JustCalled("off")
   /\ ~IsRegistered(lastOp.before, lastOp.cls, PlainRef(lastOp.fn)))
    => listeners = lastOp.before

\* off(K, h) was called when K had other listeners but not h
C15_Witness ==
  /\ JustCalled("off")
  /\ ~IsRegistered(lastOp.before, lastOp.cls, PlainRef(lastOp.fn))
  /\ Len(LevelRegs(lastOp.before, lastOp.cls)) = 2

\* off(K, h) was called when the registry had entries, but none for K
C15_WitnessNoEntry ==
  /\ JustCalled("off")
  /\ ~Has(lastOp.before, eventName[lastOp.cls])
  /\ lastOp.before # <<>>

\* function f is registered on class c in reg, by on or by once
FnRegistered(reg, c, f) ==
  \E i \in 1..Len(LevelRegs(reg, c)) : LevelRegs(reg, c)[i].fn = f

\* the last two calls were on(K, h) and then off(K, h), and before them h was
\* registered on no class of cs
RoundTrip(cs) ==
  /\ lastOp.op = "off"
  /\ lastOp.prev = <<"on", lastOp.cls, lastOp.fn>>
  /\ \A c \in cs : ~FnRegistered(lastOp.before2, c, lastOp.fn)

\* the running emit is the first call after the last registry call, and it
\* emits the class of that call
FirstEmitOfClass == EmitDone /\ lastOp.age = 1 /\ event = lastOp.cls

\* the running emit invoked function f, directly or through a once wrapper
FnInvoked(f) == \E i \in 1..Len(log) : log[i].h.fn = f

\* C16, for every h not registered on K before: on(K, h) followed by
\* off(K, h) gives the registry of before the on; an emit(K, p) that follows
\* does not invoke h, and returns true if the chain of K had no listener.
C16_Original ==
  RoundTrip({lastOp.cls}) =>
    /\ JustCalled("off") => listeners = lastOp.before2
    /\ FirstEmitOfClass =>
         /\ ~FnInvoked(lastOp.fn)
         /\ Expected(lastOp.before2, lastOp.cls) = <<>> => result = TRUE

\* C16: for h not registered on K before, on(K, h) followed by off(K, h) gives
\* the registry of before the on; if h was registered on no ancestor of K
\* either, an emit(K, p) that follows does not invoke h; the emit returns true
\* if the chain of K had no listener.
C16_RoundTrip ==
  RoundTrip({lastOp.cls}) =>
    /\ JustCalled("off") => listeners = lastOp.before2
    /\ FirstEmitOfClass =>
         /\ RoundTrip(ChainSet(lastOp.cls)) => ~FnInvoked(lastOp.fn)
         /\ Expected(lastOp.before2, lastOp.cls) = <<>> => result = TRUE /\ log = <<>>

\* after on(K, h) and off(K, h), with another listener on K, emit(K) invoked
\* that listener and not h
C16_Witness ==
  /\ RoundTrip(ChainSet(lastOp.cls))
  /\ FirstEmitOfClass
  /\ LevelRegs(lastOp.before2, lastOp.cls) # <<>>
  /\ log # <<>>
  /\ ~FnInvoked(lastOp.fn)

\* after on(K, h) and off(K, h) on an empty registry, emit(K) returns true
C16_WitnessOnlyListener ==
  /\ RoundTrip(ChainSet(lastOp.cls))
  /\ FirstEmitOfClass
  /\ lastOp.before2 = <<>>
  /\ result = TRUE

\* C17: whatever methods user code and listeners have called, every entry of
\* the registry holds at least one listener.
C17_NoEmptyEntry == \A k \in DOMAIN listeners : listeners[k] # <<>>

\* a listener called off during dispatch for the only listener of a class,
\* whose entry is gone, while another class still has its entry
C17_Witness ==
  /\ EmitDone
  /\ listeners # <<>>
  /\ \E i \in 1..Len(log) :
       /\ log[i].call.op = "off"
       /\ LevelRegs(reg0, log[i].call.cls) = <<PlainRef(log[i].call.fn)>>
       /\ ~Has(listeners, eventName[log[i].call.cls])

\* C18: after removeAllListenersFor(K) no listener is stored for K and every
\* other class, ancestor or descendant, has the listeners it had; the first
\* emit after it invokes, for each class other than K that it reaches, the
\* listeners stored before the call and none for K, and every later emit
\* those among them that are no once wrappers.
C18_RemoveForOnlyK ==
  lastOp.op = "removeAllListenersFor" =>
    LET K == lastOp.cls
    IN  /\ JustCalled("removeAllListenersFor") =>
             /\ LevelRegs(listeners, K) = <<>>
             /\ \A d \in Classes \ {K} :
                  LevelRegs(listeners, d) = LevelRegs(lastOp.before, d)
        /\ EmitDone =>
             /\ InvokedFor(K) = <<>>
             /\ \A d \in ChainSet(event) \ {K} :
                  ~StoppedBelow(d) =>
                    /\ lastOp.age = 1 => InvokedFor(d) = LevelRegs(lastOp.before, d)
                    /\ Plain(InvokedFor(d)) = Plain(LevelRegs(lastOp.before, d))

\* removeAllListenersFor(K) has removed the listener of K and left the
\* listeners of K's parent and of a subclass of K
C18_Witness ==
  /\ JustCalled("removeAllListenersFor")
  /\ LevelRegs(lastOp.before, lastOp.cls) # <<>>
  /\ \E a \in Ancestors(lastOp.cls) : LevelRegs(listeners, a) # <<>>
  /\ \E d \in Classes : lastOp.cls \in Ancestors(d) /\ LevelRegs(listeners, d) # <<>>

\* after removeAllListenersFor(K), emit of a subclass of K invoked the
\* listener of the subclass and none of K
C18_WitnessLaterEmit ==
  /\ lastOp.op = "removeAllListenersFor" /\ lastOp.age = 1 /\ EmitDone
  /\ LevelRegs(lastOp.before, lastOp.cls) # <<>>
  /\ lastOp.cls \in Ancestors(event)
  /\ InvokedFor(event) # <<>>

\* C19: from removeAllListeners() until the next registry call the registry
\* is empty, and an emit of any class invokes no listener and returns true.
C19_RemoveAllEmpties ==
  lastOp.op = "removeAllListeners" =>
    /\ listeners = <<>>
    /\ log = <<>>
    /\ EmitDone => result = TRUE

\* removeAllListeners() was called with listeners on two classes, one of them
\* the root, and an emit made afterwards returns true
C19_Witness ==
  /\ lastOp.op = "removeAllListeners"
  /\ Cardinality(DOMAIN lastOp.before) = 2
  /\ Has(lastOp.before, eventName["BaseEvent"])
  /\ EmitDone
  /\ result = TRUE

\* C20: the EmitInfo given to a listener names the class that was passed to
\* emit or emitAsync, for listeners registered on an ancestor class too.
C20_ContextNamesEmittedClass ==
  /\ \A i \in 1..Len(log) : log[i].seen = event
  /\ \A c \in Ids :
       \A i \in 1..Len(calls[c].tasks) :
         calls[c].tasks[i].hst # "queued" => calls[c].tasks[i].seen = calls[c].ev

\* an emit and an emitAsync of a class below the root have both invoked a
\* listener registered on an ancestor of the class
C20_Witness ==
  /\ EmitDone
  /\ \E i \in 1..Len(log) : log[i].lvl \in Ancestors(event)
  /\ \E c \in Ids :
       /\ Resolved(c)
       /\ \E i \in 1..Len(calls[c].tasks) :
            calls[c].tasks[i].lvl \in Ancestors(calls[c].ev)

\* ------------------------------------------------------------------- C21
\* C21: every emit call creates a new context whose shouldContinuePropagation
\* is true, and the flag is false only when a listener of this emit has
\* called stopEventPropagation; so after an earlier emit was stopped, an emit
\* in which no listener stops the propagation still invokes every
\* registration of every class of its chain.
C21_FreshContextPerEmit ==
  /\ pc \in {"emit", "emitDone"} => (emitInfo.cont <=> NoStop)
  /\ (pastStop = "yes" /\ EmitDone /\ NoStop) =>
       \A c \in ChainSet(event) : LevelComplete(c)

\* an emit was stopped and has returned; a later emit has invoked a listener
\* of the emitted class and a listener of an ancestor
C21_Witness ==
  /\ pastStop = "yes" /\ EmitDone /\ NoStop
  /\ \E i, j \in 1..Len(log) :
       log[i].lvl = event /\ log[j].lvl \in Ancestors(event)

\* ------------------------------------------------------------------- C23
\* C23: in one emit or emitAsync call console.error is called exactly once
\* for each listener call that threw or whose promise was rejected, and is
\* not called for a listener call that returned, has not finished, or whose
\* promise was fulfilled.
C23_SinkOncePerFailure ==
  /\ \A i \in 1..Len(log) : log[i].errs = IF log[i].threw THEN 1 ELSE 0
  /\ \A c \in Ids : \A i \in 1..Len(calls[c].tasks) :
       calls[c].tasks[i].errs =
         IF calls[c].tasks[i].hst \in {"threw", "rejected"} THEN 1 ELSE 0

\* an emitAsync call has resolved with a listener whose promise was rejected
\* and one whose promise was fulfilled
C23_Witness ==
  \E c \in Ids : \E i, j \in 1..Len(calls[c].tasks) :
    /\ Resolved(c)
    /\ calls[c].tasks[i].hst = "rejected"
    /\ calls[c].tasks[j].hst = "fulfilled"

\* an emit has run with a listener that threw and one that returned
C23_WitnessSync ==
  /\ EmitDone
  /\ \E i, j \in 1..Len(log) : log[i].threw /\ ~log[j].threw

\* an emitAsync call with a listener that threw and one that returned
C23_WitnessAsyncThrow ==
  \E c \in Ids : \E i, j \in 1..Len(calls[c].tasks) :
    /\ calls[c].tasks[i].hst = "threw"
    /\ calls[c].tasks[j].hst = "returned"

\* ------------------------------------------------------------------- C24
\* emitAsync call c has a listener that has not been called yet, or whose
\* promise is pending
Unsettled(c) ==
  /\ calls[c].active
  /\ \E i \in 1..Len(calls[c].tasks) : calls[c].tasks[i].hst \notin Settled

\* C24: the promise of an emitAsync call is eventually resolved unless, from
\* some time on, a listener it invoked stays unsettled for ever; and as long
\* as a listener it invoked has not settled the promise is not resolved.
C24_ResolvesIffSettled ==
  \A c \in Ids :
    /\ [](calls[c].active => <>(Resolved(c) \/ []Unsettled(c)))
    /\ [](Unsettled(c) => ~Resolved(c))

\* an emitAsync call has resolved after the promise of a listener that was
\* pending while another call was made has been fulfilled
C24_Witness ==
  \E c \in Ids :
    /\ Resolved(c)
    /\ ops = 0
    /\ \E i \in 1..Len(calls[c].tasks) : calls[c].tasks[i].hst = "fulfilled"

\* nothing is left to run and the call is not resolved: the promise of a
\* listener is pending
C24_WitnessPending ==
  \E c \in Ids :
    /\ Unsettled(c) /\ ~Resolved(c)
    /\ pc = "idle" /\ micro = <<>> /\ ops = 0

\* ------------------------------------------------------------------- C25
\* C25: a once wrapper unregisters itself on its first invocation even when
\* the wrapped listener throws: when the emit returns, a wrapper it invoked
\* whose listener threw is no longer registered, and no wrapper is invoked by
\* emit a second time.
C25_OnceRemovedOnThrow ==
  /\ EmitDone =>
       \A i \in 1..Len(log) :
         (log[i].h.w # 0 /\ log[i].threw) =>
            ~IsRegistered(listeners, log[i].h.ev, log[i].h)
  /\ \A n \in Ids : onceCalls[n] <= 1

\* ------------------------------------------------------------------- C26
\* C26: for a listener registered with once that returns a promise,
\* emitAsync does not resolve before that promise has settled, and resolves
\* to false if it is rejected.
C26_OnceAwaited ==
  \A c \in Ids :
    Resolved(c) =>
      \A i \in 1..Len(calls[c].tasks) :
        /\ calls[c].tasks[i].inner # "pending"
        /\ calls[c].tasks[i].inner = "rejected" => calls[c].resolved = "false"

\* ------------------------------------------------------------------- C27
\* C27: a listener registered with once(K, h) is invoked at most one time in
\* total, also when h calls emit(K, ...) before it returns.
C27_OnceAtMostOnce == \A n \in Ids : onceCalls[n] <= 1

\* C27, for emitAsync calls started before the listeners of either have run:
\* a once wrapper is not called by two emitAsync calls.
C27_OnceAtMostOnceAsync ==
  \A c, d \in Ids :
    c # d =>
      \A i \in 1..Len(calls[c].tasks), j \in 1..Len(calls[d].tasks) :
        (/\ calls[c].tasks[i].h.w # 0
         /\ calls[c].tasks[i].h = calls[d].tasks[j].h
         /\ calls[c].tasks[i].hst # "queued")
          => calls[d].tasks[j].hst = "queued"

\* ------------------------------------------------------------------- C28
RECURSIVE PendingFrom(_, _, _)
\* the listeners the generator still yields if the registry and the context
\* stay as they are
PendingFrom(reg, info, g) ==
  LET n == GenNext(reg, info, g)
  IN  IF n.done THEN <<>>
      ELSE <<[h |-> n.h, lvl |-> n.lvl]>> \o PendingFrom(reg, info, n.g)

\* the listener calls the running emit still has to make
Pending == PendingFrom(listeners, emitInfo, gen)

\* C28: emit terminates when every listener call returns, whatever registry
\* method the listener calls: each listener call leaves the loop of emit
\* with fewer calls to make than before.
C28_EmitTerminates ==
  [][(pc = "emit" /\ pc' = "emit") => Len(Pending') < Len(Pending)]_vars

\* C28 without calls by listeners: each listener call leaves fewer to make
C28_EmitTerminatesNoCalls ==
  [][(pc = "emit" /\ pc' = "emit" /\ log'[Len(log')].call = NoCall)
       => Len(Pending') < Len(Pending)]_vars

\* ------------------------------------------------------------------- C29
\* seq without the first occurrence of l
WithoutFirst(seq, l) ==
  IF \E i \in 1..Len(seq) : seq[i] = l
  THEN LET p == CHOOSE i \in 1..Len(seq) :
                  seq[i] = l /\ \A j \in 1..(i - 1) : seq[j] # l
       IN  SubSeq(seq, 1, p - 1) \o SubSeq(seq, p + 1, Len(seq))
  ELSE seq

\* listener l is in seq more than once
Repeated(seq, l) == \E i, j \in 1..Len(seq) : i < j /\ seq[i] = l /\ seq[j] = l

\* C29, first registration only: when h is registered on K more than once,
\* off(K, h) removes the first registration of h; the others stay in K's
\* sequence and the next emit that reaches K invokes them.
C29_Original ==
  (/\ lastOp.op = "off"
   /\ Repeated(LevelRegs(lastOp.before, lastOp.cls), PlainRef(lastOp.fn))) =>
     LET K == lastOp.cls
         rest == WithoutFirst(LevelRegs(lastOp.before, K), PlainRef(lastOp.fn))
     IN  /\ JustCalled("off") => LevelRegs(listeners, K) = rest
         /\ (EmitDone /\ lastOp.age = 1 /\ K \in ChainSet(event) /\ ~StoppedBelow(K))
              => InvokedFor(K) = rest

\* C29: when h is registered on K more than once, off(K, h) removes every
\* registration of h: none stays in K's sequence, the other listeners of K
\* stay in their order, and the next emit that reaches K does not invoke h
\* for K.
C29_OffRemovesEveryRegistration ==
  (/\ lastOp.op = "off"
   /\ Repeated(LevelRegs(lastOp.before, lastOp.cls), PlainRef(lastOp.fn))) =>
     LET K == lastOp.cls
         h == PlainRef(lastOp.fn)
     IN  /\ JustCalled("off") =>
              /\ ~IsRegistered(listeners, K, h)
              /\ LevelRegs(listeners, K) = Others(LevelRegs(lastOp.before, K), h)
         /\ (EmitDone /\ lastOp.age = 1 /\ K \in ChainSet(event) /\ ~StoppedBelow(K))
              => /\ \A i \in 1..Len(InvokedFor(K)) : InvokedFor(K)[i] # h
                 /\ InvokedFor(K) = Others(LevelRegs(lastOp.before, K), h)

\* off(K, h) was called with h registered on K twice, around another listener
C29_Witness ==
  /\ JustCalled("off")
  /\ Len(LevelRegs(lastOp.before, lastOp.cls)) = 3
  /\ LevelRegs(lastOp.before, lastOp.cls)[1] = PlainRef(lastOp.fn)
  /\ LevelRegs(lastOp.before, lastOp.cls)[3] = PlainRef(lastOp.fn)
  /\ Len(LevelRegs(listeners, lastOp.cls)) = 1

\* h was registered on K twice, off(K, h) was called, and the next emit of K
\* has run without invoking a listener
C29_WitnessLaterEmit ==
  /\ lastOp.op = "off" /\ lastOp.age = 1 /\ EmitDone /\ event = lastOp.cls
  /\ Repeated(LevelRegs(lastOp.before, lastOp.cls), PlainRef(lastOp.fn))
  /\ log = <<>>

\* ------------------------------------------------------------------- C30
\* the last two registry calls were once(K, h) and then off(K, h)
OnceThenOff ==
  /\ lastOp.op = "off"
  /\ lastOp.prev = <<"once", lastOp.cls, lastOp.fn>>

\* the wrapper that once(K, h) registered: the last listener K had before
\* the off call
OnceWrapper == LevelRegs(lastOp.before, lastOp.cls)[Len(LevelRegs(lastOp.before, lastOp.cls))]

\* C30, whatever was registered before: after once(K, h), off(K, h) leaves
\* the registry unchanged and the next emit that reaches K invokes h.
C30_Original ==
  OnceThenOff =>
    /\ JustCalled("off") => listeners = lastOp.before
    /\ (FirstEmitOfClass /\ ~StoppedBelow(lastOp.cls)) => FnInvoked(lastOp.fn)

\* C30: after once(K, h), off(K, h) does not remove the wrapper: it stays the
\* last listener of K, only registrations of h made with on(K, h) are taken
\* out, so that the registry is unchanged when there were none, and the next
\* emit of K invokes the wrapper.
C30_OffKeepsOnceWrapper ==
  OnceThenOff =>
    LET K == lastOp.cls
        h == PlainRef(lastOp.fn)
    IN  /\ OnceWrapper.w # 0 /\ OnceWrapper.fn = lastOp.fn
        /\ JustCalled("off") =>
             /\ ~IsRegistered(lastOp.before, K, h) => listeners = lastOp.before
             /\ LevelRegs(listeners, K) = Others(LevelRegs(lastOp.before, K), h)
             /\ LevelRegs(listeners, K)[Len(LevelRegs(listeners, K))] = OnceWrapper
             /\ \A d \in Classes \ {K} :
                  LevelRegs(listeners, d) = LevelRegs(lastOp.before, d)
        /\ (FirstEmitOfClass /\ ~StoppedBelow(K)) =>
             \E i \in 1..Len(log) : log[i].h = OnceWrapper /\ log[i].lvl = K

\* once(K, h) and off(K, h) were called with no other registration of h on
\* K, and the registry still has the wrapper
C30_Witness ==
  /\ OnceThenOff /\ JustCalled("off")
  /\ ~IsRegistered(lastOp.before, lastOp.cls, PlainRef(lastOp.fn))
  /\ listeners = lastOp.before
  /\ IsRegistered(listeners, lastOp.cls, OnceWrapper)

\* the emit that followed once(K, h) and off(K, h) has invoked the wrapper
C30_WitnessLaterEmit ==
  /\ OnceThenOff /\ FirstEmitOfClass
  /\ \E i \in 1..Len(log) : log[i].h = OnceWrapper

\* on(K, h), once(K, h) and off(K, h) were called: the registration made
\* with on is gone and the wrapper is left
C30_WitnessAlsoOn ==
  /\ OnceThenOff /\ JustCalled("off")
  /\ IsRegistered(lastOp.before, lastOp.cls, PlainRef(lastOp.fn))
  /\ LevelRegs(listeners, lastOp.cls) = <<OnceWrapper>>

\* ------------------------------------------------------------------- C22
IsHexDigit(ch) == ch \in 48..57 \cup 97..102

\* s is name, "(", one or more hexadecimal digits, ")"
NameHashForm(s, name) ==
  /\ Len(s) >= Len(name) + 3
  /\ SubSeq(s, 1, Len(name)) = name
  /\ s[Len(name) + 1] = 40
  /\ s[Len(s)] = 41
  /\ \A i \in (Len(name) + 2)..(Len(s) - 1) : IsHexDigit(s[i])

\* C22: every read of a class's eventName returns the same string, of the
\* form name(hash) with name the class's declared name, and two classes with
\* different declared names get different strings.
C22_EventNameDeterministic ==
  \A c \in NameClasses :
    /\ \A i \in 1..Len(returned[c]) :
         /\ returned[c][i] = returned[c][1]
         /\ NameHashForm(returned[c][i], declared[c])
    /\ \A d \in NameClasses :
         declared[c] # declared[d] =>
           \A i \in 1..Len(returned[c]), j \in 1..Len(returned[d]) :
             returned[c][i] # returned[d][j]

\* both classes, declared with different names (the first with a name of one
\* character), have been read twice
C22_Witness ==
  /\ declared["class1"] # declared["class2"]
  /\ \A c \in NameClasses : Len(returned[c]) = 2
  /\ returned["class1"][1] # returned["class2"][1]
  /\ Len(declared["class1"]) = 1

\* ------------------------------------------------------------------- C31
\* the call takes listeners of class c out of the registry
Removes(call, c) ==
  \/ call.op \in {"off", "removeAllListenersFor"} /\ call.cls = c
  \/ call.op = "removeAllListeners"

\* the call adds a listener to class c
Adds(call, c) == call.op \in {"on", "once"} /\ call.cls = c

\* the listeners of the classes below c in the chain left the registrations
\* of c alone, and those of c added none to c
LevelOnlyShrunk(c) ==
  \A i \in 1..Len(log) :
    /\ c \in Ancestors(log[i].lvl) => ~Removes(log[i].call, c) /\ ~Adds(log[i].call, c)
    /\ log[i].lvl = c => ~Adds(log[i].call, c)

\* C31: a listener that a listener of the same class takes out of the
\* registry during an emit (off, removeAllListenersFor, removeAllListeners)
\* is still invoked in that emit when it was registered as the dispatch of
\* the class began: the emit invokes every registration the class had then,
\* in order; and when the emit returns the listener removed with off is no
\* longer registered unless it was registered again.
C31_RemovedStillInvoked ==
  EmitDone =>
    /\ \A c \in ChainSet(event) :
         (~StoppedBelow(c) /\ LevelOnlyShrunk(c)) => LevelComplete(c)
    /\ \A i \in 1..Len(log) :
         (/\ log[i].call.op = "off"
          /\ \A j \in (i + 1)..Len(log) : ~Adds(log[j].call, log[i].call.cls))
           => ~IsRegistered(listeners, log[i].call.cls, PlainRef(log[i].call.fn))

\* the first listener of a class called off for the second, which the emit
\* invoked all the same and which is no longer registered
C31_Witness ==
  /\ EmitDone
  /\ Len(log) >= 2
  /\ log[1].lvl = log[2].lvl
  /\ log[2].h.w = 0
  /\ log[1].h # log[2].h
  /\ log[1].call = [op |-> "off", cls |-> log[2].lvl, fn |-> log[2].h.fn]
  /\ ~IsRegistered(listeners, log[2].lvl, log[2].h)

\* the same with removeAllListenersFor, and with removeAllListeners
C31_WitnessRemoveAll ==
  /\ EmitDone
  /\ Len(log) >= 2
  /\ log[1].lvl = log[2].lvl
  /\ \/ log[1].call = [op |-> "removeAllListenersFor", cls |-> log[1].lvl, fn |-> "f1"]
     \/ log[1].call.op = "removeAllListeners"
  /\ listeners = <<>>

\* ------------------------------------------------------------------- C32
\* listener i of a class below c made the only call of this emit, among the
\* listeners of c and of the classes below it, that changes the listeners of c
OnlyChangeFromBelow(c, i) ==
  /\ c \in Ancestors(log[i].lvl)
  /\ Adds(log[i].call, c) \/ Removes(log[i].call, c)
  /\ \A j \in 1..Len(log) \ {i} :
       (log[j].lvl = c \/ c \in Ancestors(log[j].lvl))
         => ~Adds(log[j].call, c) /\ ~Removes(log[j].call, c)

\* C32: emit reads the listeners of a class when the traversal reaches the
\* class, so a change that a listener of a lower class makes to an ancestor
\* class is seen by the same emit: a listener added to the ancestor is
\* invoked after those the ancestor had, a listener removed from it is not
\* invoked, and the others are invoked as before.
C32_AncestorReadOnArrival ==
  EmitDone =>
    \A c \in ChainSet(event) : \A i \in 1..Len(log) :
      (OnlyChangeFromBelow(c, i) /\ ~StoppedBelow(c)) =>
        LET before == LevelRegs(reg0, c)
            call == log[i].call
            now == InvokedFor(c)
        IN  CASE call.op = "on" -> now = Append(before, PlainRef(call.fn))
              [] call.op = "once" ->
                   /\ Len(now) = Len(before) + 1
                   /\ SubSeq(now, 1, Len(before)) = before
                   /\ now[Len(now)].w # 0
                   /\ now[Len(now)].fn = call.fn
                   /\ \A k \in 1..Len(before) : before[k] # now[Len(now)]
              [] call.op = "off" -> now = Others(before, PlainRef(call.fn))
              [] OTHER -> now = <<>>

\* a listener of a class added a listener to an ancestor that had none, and
\* the emit invoked it
C32_Witness ==
  /\ EmitDone
  /\ \E c \in ChainSet(event) : \E i \in 1..Len(log) :
       /\ OnlyChangeFromBelow(c, i)
       /\ log[i].call.op = "on"
       /\ InvokedFor(c) = Append(LevelRegs(reg0, c), PlainRef(log[i].call.fn))

\* a listener of a class removed a listener of an ancestor, which the emit
\* did not invoke
C32_WitnessRemoved ==
  /\ EmitDone
  /\ \E c \in ChainSet(event) : \E i \in 1..Len(log) :
       /\ OnlyChangeFromBelow(c, i)
       /\ log[i].call.op = "off"
       /\ IsRegistered(reg0, c, PlainRef(log[i].call.fn))
       /\ InvokedFor(c) = <<>>

\* ------------------------------------------------------------------- C33
RECURSIVE StoppingExpected(_, _, _)
\* the registrations of the classes of chain, up to and including the first
\* class that has a listener whose function is in stops
StoppingExpected(reg, chain, stops) ==
  IF chain = <<>> THEN <<>>
  ELSE LET lvl == Tag(LevelRegs(reg, Head(chain)), Head(chain))
       IN  IF \E i \in 1..Len(lvl) : lvl[i].h.fn \in stops THEN lvl
           ELSE lvl \o StoppingExpected(reg, Tail(chain), stops)

\* the functions that call stopEventPropagation in the emit a listener called
InnerStops(call) == IF call.op = "emitStop" THEN {call.fn} ELSE {}

\* C33: emissions that overlap have contexts of their own.  The context of
\* the running emit is stopped exactly when one of the listeners it invoked
\* itself stopped it, and the classes it visits are cut by those stops only,
\* whatever the emits called by its listeners did with their contexts; an
\* emit called by a listener invokes the listeners its own stops leave,
\* whether or not the calling emit was stopped; and the context of every
\* emitAsync call in flight is stopped exactly when one of its own listeners
\* stopped it, all its listeners being run.
C33_ContextsDistinct ==
  /\ pc \in {"emit", "emitDone"} => (emitInfo.cont <=> NoStop)
  /\ EmitDone =>
       /\ \A c \in ChainSet(event) :
            IF StoppedBelow(c) THEN InvokedFor(c) = <<>> ELSE LevelComplete(c)
       /\ \A i \in 1..Len(log) :
            log[i].call.op \in {"emit", "emitStop"} =>
              log[i].nested =
                StoppingExpected(reg0, Chain(log[i].call.cls), InnerStops(log[i].call))
  /\ \A d \in Ids :
       calls[d].active =>
         /\ calls[d].info.cont <=>
              \A i \in 1..Len(calls[d].tasks) : ~calls[d].tasks[i].stop
         /\ TaskHL(d) = calls[d].chain0

\* a listener called emit, a listener of that emit stopped it before it
\* reached an ancestor that has listeners, and the calling emit, not stopped,
\* went on to invoke the listeners of its ancestor
C33_Witness ==
  /\ EmitDone
  /\ NoStop
  /\ emitInfo.cont
  /\ \E i \in 1..Len(log) :
       /\ log[i].call.op = "emitStop"
       /\ log[i].nested # <<>>
       /\ Len(log[i].nested) < Len(Expected(reg0, log[i].call.cls))
       /\ \E j \in (i + 1)..Len(log) : log[j].lvl \in Ancestors(log[i].lvl)

\* a listener stopped the running emit and called emit, which invoked the
\* listeners of two classes
C33_WitnessOuterStopped ==
  /\ EmitDone
  /\ \E i \in 1..Len(log) :
       /\ log[i].stop
       /\ log[i].call.op = "emit"
       /\ Len(log[i].nested) >= 2
       /\ log[i].nested[1].lvl # log[i].nested[2].lvl

\* two emitAsync calls in flight: a listener of one stopped its context, the
\* context of the other is not stopped
C33_WitnessAsync ==
  \E c, d \in Ids :
    /\ calls[c].active /\ calls[d].active
    /\ ~calls[c].info.cont
    /\ calls[d].info.cont
    /\ calls[d].tasks # <<>>
    /\ \A i \in 1..Len(calls[d].tasks) : calls[d].tasks[i].hst # "queued"

\* an emit ran while an emitAsync call stopped by its listener was in flight
C33_WitnessEmitDuringAsync ==
  /\ EmitDone
  /\ emitInfo.cont
  /\ log # <<>>
  /\ \E c \in Ids : calls[c].active /\ ~calls[c].info.cont

\* ------------------------------------------------------------------- C34
\* C34: within one emission shouldContinuePropagation is true until the first
\* stopEventPropagation call and false from then on, whatever further calls
\* are made: the flag of the running emit is false exactly when a listener it
\* invoked has called stopEventPropagation, and each listener, as it is
\* called, reads true exactly when no listener invoked before it in the same
\* emission had called it; the same for every emitAsync call.
C34_StopIsPermanent ==
  /\ pc \in {"emit", "emitDone"} =>
       /\ emitInfo.cont <=> \A j \in 1..Len(log) : ~log[j].stop
       /\ \A i \in 1..Len(log) : log[i].flag <=> \A j \in 1..(i - 1) : ~log[j].stop
  /\ \A c \in Ids :
       calls[c].active =>
         LET ts == calls[c].tasks
         IN  /\ calls[c].info.cont <=> \A j \in 1..Len(ts) : ~ts[j].stop
             /\ \A i \in 1..Len(ts) :
                  ts[i].hst # "queued" => (ts[i].flag <=> \A j \in 1..(i - 1) : ~ts[j].stop)

\* two listeners of one emit called stopEventPropagation: the second read
\* false, and the flag is false
C34_Witness ==
  /\ EmitDone
  /\ Len(log) >= 2
  /\ log[1].stop /\ log[2].stop
  /\ log[1].flag /\ ~log[2].flag
  /\ ~emitInfo.cont

\* the same in an emitAsync call
C34_WitnessAsync ==
  \E c \in Ids :
    /\ calls[c].active
    /\ Len(calls[c].tasks) >= 2
    /\ calls[c].tasks[1].stop /\ calls[c].tasks[2].stop
    /\ ~calls[c].tasks[2].flag
    /\ ~calls[c].info.cont

\* ------------------------------------------------------------------- C35
\* C35: the traversal visits the class it starts with first, then each
\* successive superclass once, and ends: it never visits more classes than
\* are declared; started from BaseEvent or a class derived from it, it visits
\* BaseEvent last; started from any other class, it ends at the first class
\* whose superclass has no eventName.
C35_TraversalVisitsChain ==
  LET v == walk.visited
  IN  /\ Len(v) <= Cardinality(WalkClasses)
      /\ v # <<>> => v[1] = walk.start
      /\ \A i \in 1..(Len(v) - 1) : v[i + 1] = declaredParent[v[i]]
      /\ \A i, j \in 1..Len(v) : i # j => v[i] # v[j]
      /\ ~walk.done => walk.cur \in WalkClasses /\ HasStaticEventName(walk.cur)
      /\ (walk.done /\ walk.start # NoClass) =>
           /\ v # <<>>
           /\ IF "BaseEvent" \in UpSet(declaredParent, walk.start)
              THEN v[Len(v)] = "BaseEvent"
              ELSE \/ declaredParent[v[Len(v)]] = NoClass
                   \/ ~HasStaticEventName(declaredParent[v[Len(v)]])

\* a walk through three classes that ended at BaseEvent
C35_Witness ==
  /\ walk.done
  /\ Len(walk.visited) >= 3
  /\ walk.visited[Len(walk.visited)] = "BaseEvent"

\* a walk of two classes not derived from BaseEvent that ended at a class
\* whose superclass is a class without eventName
C35_WitnessNoEventName ==
  /\ walk.done
  /\ Len(walk.visited) = 2
  /\ "BaseEvent" \notin UpSet(declaredParent, walk.start)
  /\ declaredParent[walk.visited[2]] # NoClass

\* ------------------------------------------------------------------- C36
\* C36: two distinct classes never have the same eventName, whatever names
\* they are declared with: the strings their getters return differ.
C36_DistinctClassesDistinctNames ==
  \A c, d \in NameClasses :
    c # d =>
      \A i \in 1..Len(returned[c]), j \in 1..Len(returned[d]) :
        returned[c][i] # returned[d][j]

\* ------------------------------------------------------------------- C37
\* C37: whatever the order in which the eventName of a class and of its
\* superclass are first read, each read returns the string built from the
\* declared name of the class that is read; the getter, inherited by every
\* subclass, runs with the class read as `this`, so class1 and class2 stand
\* for a class and a class derived from it.  The cache holds for each class
\* the string of its own name, so neither is given the other's entry.
C37_OwnNameAnyOrder ==
  /\ \A c \in NameClasses : \A i \in 1..Len(returned[c]) :
       returned[c][i] = TemplateString(declared[c])
  /\ \A c \in DOMAIN cache : cache[c] = TemplateString(declared[c])

\* both classes, declared with different names, have been read, the
\* superclass twice
C37_Witness ==
  /\ declared["class1"] # declared["class2"]
  /\ DOMAIN cache = NameClasses
  /\ cache["class1"] # cache["class2"]
  /\ Len(returned["class1"]) = 2
  /\ Len(returned["class2"]) = 1

\* the subclass was read first, the superclass not yet
C37_WitnessChildFirst ==
  /\ DOMAIN cache = {"class2"}
  /\ returned["class1"] = <<>>
  /\ Len(returned["class2"]) = 2

\* ------------------------------------------------------------------- C38
\* C38: handlers.removeAllListeners has the effect of the method
\* removeAllListeners: after the call the registry has no listener.
C38_HandlersRemoveAll ==
  JustCalled("handlers.removeAllListeners") => listeners = ClearReg(lastOp.before)

\* ------------------------------------------------------------------- C39
\* C39: emit does not wait for its listeners.  A listener that returned a
\* promise counts as a success whether the promise is later fulfilled or
\* rejected: the emit that returned had returned true exactly when none of
\* its listeners threw, and console.error was called once for each listener
\* that threw and never for one that returned, whatever became of its promise.
C39_EmitDoesNotWait ==
  past.tracked =>
    /\ past.result <=> \A i \in 1..Len(past.log) : ~past.log[i].threw
    /\ \A i \in 1..Len(past.log) :
         past.log[i].errs = IF past.log[i].threw THEN 1 ELSE 0

\* the only listener of an emit returned a promise, emit returned true, and
\* the promise was rejected afterwards
C39_Witness ==
  /\ past.tracked
  /\ Len(past.log) = 1
  /\ past.log[1].promise = "rejected"
  /\ past.result
  /\ past.log[1].errs = 0

\* ------------------------------------------------------------------- C40
\* C40: for every class name generateHash returns exactly four lowercase
\* hexadecimal digits, so every eventName is the declared name followed by
\* "(", four such digits and ")".
C40_HashHasFourDigits ==
  \A c \in NameClasses : \A i \in 1..Len(returned[c]) :
    /\ Len(generateHash(declared[c])) = 4
    /\ \A k \in 1..Len(generateHash(declared[c])) : IsHexDigit(generateHash(declared[c])[k])
    /\ Len(returned[c][i]) = Len(declared[c]) + 6
    /\ NameHashForm(returned[c][i], declared[c])

TypeOK ==
  /\ pc \in {"idle", "emit", "emitDone", "emitThrew", "micro"}
  /\ wrappers \in 0..(MaxOps + 1)
  /\ result \in BOOLEAN

====
